---------------------------- MODULE Spec2Model ----------------------------
(***************************************************************************)
(* Model of the derived-data validation run of                             *)
(* eden/mononoke/cmds/backfill_derived_data/validation.rs: the driver     *)
(* `validate`, the per-commit verification tasks, the per-kind blob-key    *)
(* projections and `check_exists`, together with the collaborators they    *)
(* call (overlay blobstore, overlay mapping, manifest diff, derivation).   *)
(***************************************************************************)
EXTENDS Integers, Sequences, FiniteSets, TLC

(***************************************************************************)
(* Bounds of the model.                                                    *)
(***************************************************************************)
\* longest commit list handed to validate
MaxLen == 2
\* most parents of the commit validated in the manifest-wide initial states
MaxParents == 2
\* most faults (unwritten mapping, wrong value, unwritten blob) one
\* re-derivation of a chunk may contain
MaxFaults == 1

\* most hooks in the server.toml handed to read_configs
MaxHooks == 1
\* longest bypass_pushvar string of a hook
MaxPushvarLen == 3
\* most whitelist entries in the common.toml handed to read_configs
MaxEntries == 3

\* try_for_each_concurrent(100, ...)
ConcurrencyLimit == 100
\* puts one concurrent derivation makes at most
MaxPuts == 2

(***************************************************************************)
(* Identifiers.                                                            *)
(***************************************************************************)
Commits == {1, 2, 3, 4}

FSNODES == "fsnodes"
SKELETON_MANIFESTS == "skeleton_manifests"
UNODES == "unodes"
HGCHANGESETS == "hgchangesets"
\* a derived-data kind validate_generated_data has no branch for
BLAME == "blame"
Kinds == {FSNODES, SKELETON_MANIFESTS, UNODES, HGCHANGESETS, BLAME}
ManifestKinds == {FSNODES, SKELETON_MANIFESTS, UNODES}

NoneVal == <<"none">>

(***************************************************************************)
(* Manifests: a content-addressed table of trees.  A tree maps a path      *)
(* segment to a child entry (Tree or Leaf); distinct rows have distinct    *)
(* content.                                                                *)
(***************************************************************************)
Segs == {"a", "d", "x"}
NoEntry == [type |-> "None", id |-> ""]
Tree(t) == [type |-> "Tree", id |-> t]
Leaf(l) == [type |-> "Leaf", id |-> l]

Mf(a, d, x) == [s \in Segs |-> IF s = "a" THEN a ELSE IF s = "d" THEN d ELSE x]

TreeTable ==
    [ S1 |-> Mf(NoEntry, NoEntry, Leaf("f1")),
      S2 |-> Mf(NoEntry, NoEntry, Leaf("f2")),
      R1 |-> Mf(Leaf("f1"), Tree("S1"), NoEntry),
      R2 |-> Mf(Leaf("f2"), Tree("S1"), NoEntry),
      R3 |-> Mf(Leaf("f1"), Tree("S2"), NoEntry),
      R4 |-> Mf(Leaf("f2"), Tree("S2"), NoEntry),
      R5 |-> Mf(Leaf("f1"), NoEntry, NoEntry),
      R6 |-> Mf(Leaf("f1"), Leaf("f2"), NoEntry),
      R7 |-> Mf(NoEntry, NoEntry, NoEntry) ]

RootIds == {"R1", "R2", "R3", "R4", "R5", "R6", "R7"}

\* StoreLoadable::load of a tree id, then Manifest::list
Load(t) == TreeTable[t]

Paths == {<<>>} \cup {<<s>> : s \in Segs} \cup {<<s, t>> : s, t \in Segs}

\* Manifest lookup of the entry at a path, NoEntry when there is none
RECURSIVE EntryAt(_, _)
EntryAt(t, path) ==
    IF path = <<>> THEN Tree(t)
    ELSE LET e == Load(t)[Head(path)]
         IN  IF Len(path) = 1 THEN e
             ELSE IF e.type = "Tree" THEN EntryAt(e.id, Tail(path))
             ELSE NoEntry

(***************************************************************************)
(* Manifest Diff Engine (manifest::find_intersection_of_diffs).            *)
(***************************************************************************)
\* every entry reachable from tree t, t itself included, with its path
RECURSIVE ListAllEntries(_, _)
ListAllEntries(path, t) ==
    {<<path, Tree(t)>>} \cup
    UNION { LET e == Load(t)[s]
            IN  IF e.type = "Leaf" THEN {<<Append(path, s), e>>}
                ELSE IF e.type = "Tree" THEN ListAllEntries(Append(path, s), e.id)
                ELSE {}
            : s \in Segs }

\* structural diff of tree t against the parent's tree pt at the same path:
\* the entries of t that were added or changed; equal subtrees are not entered
RECURSIVE DiffTrees(_, _, _)
DiffTrees(path, t, pt) ==
    IF t = pt THEN {}
    ELSE {<<path, Tree(t)>>} \cup
         UNION { LET e  == Load(t)[s]
                     pe == Load(pt)[s]
                 IN  IF e.type = "None" \/ e = pe THEN {}
                     ELSE IF e.type = "Leaf" THEN {<<Append(path, s), e>>}
                     ELSE IF pe.type = "Tree"
                          THEN DiffTrees(Append(path, s), e.id, pe.id)
                          ELSE ListAllEntries(Append(path, s), e.id)
                 : s \in Segs }

\* the entries in the diff against every parent; all entries for no parent
FindIntersectionOfDiffs(mfid, parent_mfids) ==
    IF parent_mfids = <<>> THEN ListAllEntries(<<>>, mfid)
    ELSE { pe \in DiffTrees(<<>>, mfid, parent_mfids[1]) :
             \A j \in 2..Len(parent_mfids) :
                 pe \in DiffTrees(<<>>, mfid, parent_mfids[j]) }

(***************************************************************************)
(* Blob keys and derived values.                                           *)
(***************************************************************************)
\* MononokeId::blobstore_key of a tree id, of a leaf id, of an hg changeset id
TreeKey(tree_id) == <<"tree", tree_id>>
LeafKey(leaf_id) == <<"leaf", leaf_id>>
HgChangesetKey(hg_cs_id) == <<"hgchangeset", hg_cs_id>>
\* the blob that maps a commit to its derived value (kinds mapped in the blobstore)
DerivedKey(cs_id) == <<"derived", cs_id>>

BlobBytes == <<"bytes">>

\* an absent store entry is NoneVal
Lookup(store, key) == IF key \in DOMAIN store THEN store[key] ELSE NoneVal

\* store with the entries of kvs written over it
PutAll(store, kvs) ==
    [k \in DOMAIN store \cup DOMAIN kvs |->
        IF k \in DOMAIN kvs THEN kvs[k] ELSE store[k]]

EmptyStore == [k \in {} |-> NoneVal]

(***************************************************************************)
(* Overlay Store (cacheblob::MemWritesBlobstore) and Overlay Mapping       *)
(* (bonsai_hg_mapping::MemWritesBonsaiHgMapping).                          *)
(***************************************************************************)
\* MemWritesBlobstore::new; cache_locked: the Mutex get_cache() hands out
\* is held
MemWritesBlobstoreNew ==
    [cache |-> EmptyStore, no_access_to_inner |-> FALSE, cache_locked |-> FALSE]

\* mutant: get falls back to the backend whatever the flag says
MemWritesGetAlwaysFallsBack(mem, inner, key) ==
    IF key \in DOMAIN mem.cache THEN mem.cache[key]
    ELSE Lookup(inner, key)

\* MemWritesBlobstore::get
MemWritesGet(mem, inner, key) ==
    IF key \in DOMAIN mem.cache THEN mem.cache[key]
    ELSE IF mem.no_access_to_inner THEN NoneVal
    ELSE Lookup(inner, key)

\* mutant: what get fetches from the backend is kept in the write log
MemWritesGetLogCaching(mem, inner, key) ==
    IF key \notin DOMAIN mem.cache /\ ~mem.no_access_to_inner
          /\ key \in DOMAIN inner
    THEN PutAll(mem.cache, [k \in {key} |-> inner[key]])
    ELSE mem.cache

\* the write log after MemWritesBlobstore::get: a get records nothing
MemWritesGetLog(mem, inner, key) == mem.cache

\* the overlay after a get of every key of keys
MemWritesGetAll(mem, inner, keys) ==
    LET logs == {MemWritesGetLog(mem, inner, k) : k \in keys} \cup {mem.cache}
        log_of(k) == CHOOSE l \in logs : k \in DOMAIN l
    IN  [mem EXCEPT !.cache = [k \in UNION {DOMAIN l : l \in logs} |->
                                  log_of(k)[k]]]

\* mutant: the write log is a cache of bounded capacity: a put evicts what
\* was logged before it
MemWritesPutAllEvicting(mem, kvs) == [mem EXCEPT !.cache = kvs]

\* MemWritesBlobstore::put of every entry of kvs
MemWritesPutAll(mem, kvs) == [mem EXCEPT !.cache = PutAll(mem.cache, kvs)]

\* MemWritesBonsaiHgMapping::new
MemWritesBonsaiHgMappingNew ==
    [cache |-> EmptyStore, no_access_to_inner |-> FALSE,
     readonly |-> FALSE, save_noop_writes |-> FALSE]

\* MemWritesBonsaiHgMapping lookup
MemMappingGet(mm, inner, cs_id) ==
    IF cs_id \in DOMAIN mm.cache THEN mm.cache[cs_id]
    ELSE IF mm.no_access_to_inner THEN NoneVal
    ELSE Lookup(inner, cs_id)

\* MemWritesBonsaiHgMapping insert of every entry of kvs: rejected when
\* read-only; a write of what the lookup already returns is recorded only
\* with save_noop_writes
MemMappingAddAll(mm, inner, kvs) ==
    IF mm.readonly THEN mm
    ELSE LET kept == {c \in DOMAIN kvs :
                         mm.save_noop_writes \/ MemMappingGet(mm, inner, c) # kvs[c]}
         IN  [mm EXCEPT !.cache = PutAll(mm.cache, [c \in kept |-> kvs[c]])]

(***************************************************************************)
(* State.                                                                  *)
(***************************************************************************)
VARIABLES
    readonly_storage,        \* matches.environment().readonly_storage.0
    derived_data_type,       \* ARG_DERIVED_DATA_TYPE
    csids,                   \* the commits to validate, in order
    validate_chunk_size,     \* ARG_VALIDATE_CHUNK_SIZE
    cs_parents,              \* changeset fetcher: commit -> its parents
    root_mf,                 \* commit -> root tree id of its manifest
    regenerate_skips_derived,\* the re-derivation leaves out what is derived
    inner_blobstore,         \* the durable blobstore: key -> value
    inner_bonsai_hg_mapping, \* the durable bonsai-hg mapping: commit -> hg id
    pc,                      \* where validate is
    repo_opened,             \* args::open_repo_unredacted has run
    offset,                  \* commits of csids in chunks already passed
    memblobstore,            \* the chunk's MemWritesBlobstore, or NoOverlay
    membonsaihgmapping,      \* the chunk's MemWritesBonsaiHgMapping, or NoOverlay
    task,                    \* position in csids -> its verification task
    overlays_built,          \* overlay pairs constructed so far
    regenerate_calls,        \* calls of regenerate_derived_data so far
    chunks_passed,           \* chunks that logged "Validation successful!"
    result                   \* what validate returned, NoResult while running

\* RepoConfigs::read_configs: the parsed files it is given and where it is
VARIABLES
    hooks,                   \* raw_config.hooks of the repo's server.toml
    path,                    \* raw_config.path of the repo's server.toml
    whitelist_entry,         \* raw_config.whitelist_entry of common.toml
    reader_pc,               \* where read_configs is
    all_hook_params,         \* the HookParams pushed so far
    tiers_num,               \* the tier entries the closure has counted
    whitelisted_entries,     \* what collect() holds: Ok(entries) or Err(e)
    configs                  \* what read_configs returned, NoConfigs before

\* the derivations regenerate_derived_data runs concurrently against the
\* chunk's overlay store
VARIABLES
    pending_puts             \* writer -> the puts it has still to make

reader == <<hooks, path, whitelist_entry, reader_pc, all_hook_params,
            tiers_num, whitelisted_entries, configs>>

writers == <<pending_puts>>

validation == <<readonly_storage, derived_data_type, csids, validate_chunk_size,
          cs_parents, root_mf, regenerate_skips_derived, inner_blobstore, inner_bonsai_hg_mapping, pc,
          repo_opened, offset, memblobstore, membonsaihgmapping, task,
          overlays_built, regenerate_calls, chunks_passed, result>>

vars == <<validation, reader, writers>>

\* what no step of validate changes
env == <<readonly_storage, derived_data_type, csids, validate_chunk_size,
         cs_parents, root_mf, regenerate_skips_derived, reader, writers>>

NoCs == 0
Ok == [type |-> "ok", csid |-> NoCs, key |-> NoneVal,
       real |-> NoneVal, rederived |-> NoneVal]
Err(type, csid, key, real, rederived) ==
    [type |-> type, csid |-> csid, key |-> key,
     real |-> real, rederived |-> rederived]
NoResult == [type |-> "none", csid |-> NoCs, key |-> NoneVal,
             real |-> NoneVal, rederived |-> NoneVal]

\* let mut memblobstore = None; let mut membonsaihgmapping = None
NoOverlay == [none |-> TRUE]

(***************************************************************************)
(* Repository views: which blobstore and mapping a BlobRepo reads and      *)
(* writes.                                                                 *)
(***************************************************************************)
\* let orig_repo = repo.clone()
OrigRepo == [blobstore |-> "inner", bonsai_hg_mapping |-> "inner"]
\* repo.dangerous_override(MemWritesBlobstore).dangerous_override(MemWritesBonsaiHgMapping)
OverlayRepo == [blobstore |-> "memwrites", bonsai_hg_mapping |-> "memwrites"]
\* repo.dangerous_override(ReadOnlyBlobstore::new(blobstore))
ReadOnlyRepo == [blobstore |-> "readonly", bonsai_hg_mapping |-> "memwrites"]

\* repo.blobstore().get(key)
RepoBlobGet(repo, key) ==
    IF repo.blobstore = "inner" THEN Lookup(inner_blobstore, key)
    ELSE MemWritesGet(memblobstore, inner_blobstore, key)

\* repo.bonsai_hg_mapping lookup
RepoMappingGet(repo, cs_id) ==
    IF repo.bonsai_hg_mapping = "inner" THEN Lookup(inner_bonsai_hg_mapping, cs_id)
    ELSE MemMappingGet(membonsaihgmapping, inner_bonsai_hg_mapping, cs_id)

\* repo.blobstore().get of every key of reads, then put of every entry of
\* kvs (ReadOnlyBlobstore rejects the puts)
RepoBlobGetAndPutAll(repo, reads, kvs) ==
    IF repo.blobstore = "inner"
    THEN /\ inner_blobstore' = PutAll(inner_blobstore, kvs)
         /\ UNCHANGED memblobstore
    ELSE IF repo.blobstore = "memwrites"
    THEN /\ memblobstore' =
               MemWritesPutAll(MemWritesGetAll(memblobstore, inner_blobstore,
                                               reads), kvs)
         /\ UNCHANGED inner_blobstore
    ELSE UNCHANGED <<inner_blobstore, memblobstore>>

\* repo.bonsai_hg_mapping insert of every entry of kvs
RepoMappingAddAll(repo, kvs) ==
    IF repo.bonsai_hg_mapping = "inner"
    THEN /\ inner_bonsai_hg_mapping' = PutAll(inner_bonsai_hg_mapping, kvs)
         /\ UNCHANGED membonsaihgmapping
    ELSE /\ membonsaihgmapping' =
                MemMappingAddAll(membonsaihgmapping, inner_bonsai_hg_mapping, kvs)
         /\ UNCHANGED inner_bonsai_hg_mapping

\* the overlay store's write log after repo.blobstore().put of every entry
\* of kvs (ReadOnlyBlobstore rejects the puts)
RepoBlobPutLog(repo, kvs) ==
    IF repo.blobstore = "memwrites"
    THEN MemWritesPutAll(memblobstore, kvs).cache
    ELSE memblobstore.cache

\* the overlay mapping's write log after repo.bonsai_hg_mapping insert of
\* every entry of kvs
RepoMappingAddLog(repo, kvs) ==
    IF repo.bonsai_hg_mapping = "memwrites"
    THEN MemMappingAddAll(membonsaihgmapping, inner_bonsai_hg_mapping, kvs).cache
    ELSE membonsaihgmapping.cache

(***************************************************************************)
(* Derivation framework (derived_data_utils, BonsaiDerived).               *)
(***************************************************************************)
\* the value a correct derivation of kind for commit cs_id yields
Handle(kind, cs_id) ==
    IF kind \in ManifestKinds THEN <<"root", root_mf[cs_id]>>
    ELSE IF kind = HGCHANGESETS THEN <<"hgcs", cs_id>>
    ELSE <<"derived", kind, cs_id>>

\* DerivedUtils::is_derived / the mapped value, read through a repo view
FetchDerived(repo, kind, cs_id) ==
    IF kind = HGCHANGESETS THEN RepoMappingGet(repo, cs_id)
    ELSE RepoBlobGet(repo, DerivedKey(cs_id))

IsDerived(repo, kind, cs_id) == FetchDerived(repo, kind, cs_id) # NoneVal

\* HgChangesetId::load: the changeset blob of a mapped hg changeset id
HgChangesetLoad(hg_cs_id) ==
    [changeset_id |-> hg_cs_id, manifestid |-> root_mf[hg_cs_id[2]]]

\* the blobs a derivation of kind for commit cs_id creates: one per entry
\* of the commit's manifest that none of its parents has at the same path
\* (what a parent has is reused, not written again)
DerivationBlobs(kind, cs_id) ==
    LET parent_roots == [j \in 1..Len(cs_parents[cs_id]) |->
                            root_mf[cs_parents[cs_id][j]]]
        reused == UNION {ListAllEntries(<<>>, parent_roots[j]) :
                            j \in DOMAIN parent_roots}
        entries == {pe[2] : pe \in ListAllEntries(<<>>, root_mf[cs_id]) \ reused}
        trees   == {TreeKey(e.id) : e \in {x \in entries : x.type = "Tree"}}
        leaves  == {LeafKey(e.id) : e \in {x \in entries : x.type = "Leaf"}}
    IN  IF kind \in {FSNODES, SKELETON_MANIFESTS} THEN trees
        ELSE IF kind = UNODES THEN trees \cup leaves
        ELSE IF kind = HGCHANGESETS
             THEN trees \cup leaves \cup {HgChangesetKey(Handle(kind, cs_id))}
        ELSE {<<"blob", kind, cs_id>>}

(***************************************************************************)
(* Blob-presence verification (validate_generated_data and below).         *)
(***************************************************************************)
\* check_exists: Ok, or the "{key} not found" error
CheckExists(mem_blob, key) ==
    IF RepoBlobGet(mem_blob, key) = NoneVal
    THEN Err("not_found", NoCs, key, NoneVal, NoneVal)
    ELSE Ok

\* mutant: the projection of a Tree entry names a key no derivation writes
TreeBlobKeyUnwritten(kind, tree_id) == <<"tree", <<"other", tree_id>>>>

\* the tree_blob_key closure each validate_<kind> passes
TreeBlobKey(kind, tree_id) == TreeKey(tree_id)

\* mutant: every kind projects a Leaf entry to a key
LeafBlobKeyForAll(kind, leaf_id) == LeafKey(leaf_id)

\* the leaf_blob_key closure each validate_<kind> passes
LeafBlobKey(kind, leaf_id) ==
    IF kind \in {UNODES, HGCHANGESETS} THEN LeafKey(leaf_id) ELSE NoneVal

\* the match on Entry::Tree / Entry::Leaf in validate_new_manifest_entries
MaybeKey(kind, entry) ==
    IF entry.type = "Tree" THEN TreeBlobKey(kind, entry.id)
    ELSE LeafBlobKey(kind, entry.id)

\* find_cs_and_parents_derived_data: the derived values of a commit and of
\* its parents, under the real repository
FindCsAndParentsDerivedData(kind, real_repo, cs_id) ==
    [derived |-> FetchDerived(real_repo, kind, cs_id),
     parents |-> [j \in 1..Len(cs_parents[cs_id]) |->
                     FetchDerived(real_repo, kind, cs_parents[cs_id][j])]]

\* the outcomes of a loop that checks `keys` one after another in an order
\* the entry stream decides: all present, or the first absent key met after
\* some of the present ones
CheckAll(mem_blob, keys, mf_entries) ==
    LET missing == {k \in keys : CheckExists(mem_blob, k) # Ok}
    IN  IF missing = {}
        THEN {[result |-> Ok, checked |-> keys, mf_entries |-> mf_entries,
               warned |-> FALSE]}
        ELSE {[result |-> CheckExists(mem_blob, k), checked |-> S \cup {k},
               mf_entries |-> mf_entries, warned |-> FALSE] :
                 k \in missing, S \in SUBSET (keys \ missing)}

\* mutant: only Tree entries are projected to a key
ValidateNewManifestEntriesTreesOnly(mfid, parent_mfids, mem_blob, kind) ==
    LET mf_entries == {pe[2] : pe \in FindIntersectionOfDiffs(mfid, parent_mfids)}
        keys == {TreeBlobKey(kind, e.id) : e \in {x \in mf_entries : x.type = "Tree"}}
    IN  CheckAll(mem_blob, keys, mf_entries)

\* mutant: the parents' manifests are not handed to the diff
ValidateNewManifestEntriesNoParents(mfid, parent_mfids, mem_blob, kind) ==
    LET mf_entries == {pe[2] : pe \in FindIntersectionOfDiffs(mfid, <<>>)}
        keys == {MaybeKey(kind, e) : e \in mf_entries} \ {NoneVal}
    IN  CheckAll(mem_blob, keys, mf_entries)

\* mutant: only the first parent's manifest is handed to the diff
ValidateNewManifestEntriesFirstParent(mfid, parent_mfids, mem_blob, kind) ==
    LET mf_entries == {pe[2] : pe \in FindIntersectionOfDiffs(mfid,
                          SubSeq(parent_mfids, 1, IF parent_mfids = <<>> THEN 0 ELSE 1))}
        keys == {MaybeKey(kind, e) : e \in mf_entries} \ {NoneVal}
    IN  CheckAll(mem_blob, keys, mf_entries)

\* mutant: an entry in the diff against any one parent is taken
ValidateNewManifestEntriesUnion(mfid, parent_mfids, mem_blob, kind) ==
    LET mf_entries ==
            IF parent_mfids = <<>>
            THEN {pe[2] : pe \in FindIntersectionOfDiffs(mfid, <<>>)}
            ELSE {pe[2] : pe \in UNION {DiffTrees(<<>>, mfid, parent_mfids[j]) :
                                          j \in DOMAIN parent_mfids}}
        keys == {MaybeKey(kind, e) : e \in mf_entries} \ {NoneVal}
    IN  CheckAll(mem_blob, keys, mf_entries)

\* validate_new_manifest_entries
ValidateNewManifestEntries(mfid, parent_mfids, mem_blob, kind) ==
    LET mf_entries == {pe[2] : pe \in FindIntersectionOfDiffs(mfid, parent_mfids)}
        keys == {MaybeKey(kind, e) : e \in mf_entries} \ {NoneVal}
    IN  CheckAll(mem_blob, keys, mf_entries)

\* the call of validate_new_manifest_entries the three manifest kinds share
ValidateRootManifest(kind, real_repo, cs_id, mem_blob) ==
    LET d == FindCsAndParentsDerivedData(kind, real_repo, cs_id)
    IN  ValidateNewManifestEntries(d.derived[2],
            [j \in DOMAIN d.parents |-> d.parents[j][2]], mem_blob, kind)

\* validate_fsnodes
ValidateFsnodes(real_repo, cs_id, mem_blob) ==
    ValidateRootManifest(FSNODES, real_repo, cs_id, mem_blob)

\* validate_skeleton_manifests
ValidateSkeletonManifests(real_repo, cs_id, mem_blob) ==
    ValidateRootManifest(SKELETON_MANIFESTS, real_repo, cs_id, mem_blob)

\* validate_unodes
ValidateUnodes(real_repo, cs_id, mem_blob) ==
    ValidateRootManifest(UNODES, real_repo, cs_id, mem_blob)

\* mutant: the changeset blob itself is not checked
ValidateHgchangesetsManifestOnly(real_repo, cs_id, mem_blob) ==
    LET d == FindCsAndParentsDerivedData(HGCHANGESETS, real_repo, cs_id)
        hgchangeset == HgChangesetLoad(d.derived)
        parents == [j \in DOMAIN d.parents |-> HgChangesetLoad(d.parents[j]).manifestid]
    IN  ValidateNewManifestEntries(hgchangeset.manifestid, parents,
                                   mem_blob, HGCHANGESETS)

\* validate_hgchangesets
ValidateHgchangesets(real_repo, cs_id, mem_blob) ==
    LET d == FindCsAndParentsDerivedData(HGCHANGESETS, real_repo, cs_id)
        hgchangeset == HgChangesetLoad(d.derived)
        cskey == HgChangesetKey(hgchangeset.changeset_id)
        parents == [j \in DOMAIN d.parents |-> HgChangesetLoad(d.parents[j]).manifestid]
    IN  IF CheckExists(mem_blob, cskey) # Ok
        THEN {[result |-> CheckExists(mem_blob, cskey), checked |-> {cskey},
               mf_entries |-> {}, warned |-> FALSE]}
        ELSE {[o EXCEPT !.checked = @ \cup {cskey}] :
                 o \in ValidateNewManifestEntries(hgchangeset.manifestid, parents,
                                                  mem_blob, HGCHANGESETS)}

\* mutant: a kind without a branch is an error instead of a warning
ValidateGeneratedDataRejectsOthers(real_repo, kind, cs_id, mem_blob_repo) ==
    IF kind = FSNODES THEN ValidateFsnodes(real_repo, cs_id, mem_blob_repo)
    ELSE IF kind = SKELETON_MANIFESTS
    THEN ValidateSkeletonManifests(real_repo, cs_id, mem_blob_repo)
    ELSE IF kind = UNODES THEN ValidateUnodes(real_repo, cs_id, mem_blob_repo)
    ELSE IF kind = HGCHANGESETS
    THEN ValidateHgchangesets(real_repo, cs_id, mem_blob_repo)
    ELSE {[result |-> Err("unsupported", cs_id, NoneVal, NoneVal, NoneVal),
           checked |-> {}, mf_entries |-> {}, warned |-> FALSE]}

\* validate_generated_data: the branch on real_derived_utils.name()
ValidateGeneratedData(real_repo, kind, cs_id, mem_blob_repo) ==
    IF kind = FSNODES THEN ValidateFsnodes(real_repo, cs_id, mem_blob_repo)
    ELSE IF kind = SKELETON_MANIFESTS
    THEN ValidateSkeletonManifests(real_repo, cs_id, mem_blob_repo)
    ELSE IF kind = UNODES THEN ValidateUnodes(real_repo, cs_id, mem_blob_repo)
    ELSE IF kind = HGCHANGESETS
    THEN ValidateHgchangesets(real_repo, cs_id, mem_blob_repo)
    ELSE {[result |-> Ok, checked |-> {}, mf_entries |-> {}, warned |-> TRUE]}

(***************************************************************************)
(* Re-derivation of a chunk (regenerate::regenerate_derived_data).         *)
(***************************************************************************)
Min(a, b) == IF a < b THEN a ELSE b

\* the subsets of S with at most n elements
RECURSIVE SubsetsUpTo(_, _)
SubsetsUpTo(S, n) ==
    IF n = 0 THEN {{}}
    ELSE LET smaller == SubsetsUpTo(S, n - 1)
         IN  smaller \cup {T \cup {x} : T \in smaller, x \in S}

\* a value other than the correct one that a faulty derivation may yield
WrongHandle(kind, cs_id) == <<"wrong", kind, cs_id>>

\* the positions of csids of the chunk that starts after `off` commits
ChunkPositions(off) == (off + 1)..Min(off + validate_chunk_size, Len(csids))

\* what one re-derivation of the commits at `positions` may do: per commit
\* the value it maps the commit to (NoneVal: it records no mapping), and the
\* blobs it fails to write; at most MaxFaults departures from a correct run.
\* A re-derivation that skips derived commits does nothing for a commit the
\* repository view it is given reports as derived.
RegenerateOutcomes(repo, kind, positions) ==
    LET skipped == IF regenerate_skips_derived
                   THEN {i \in positions : IsDerived(repo, kind, csids[i])}
                   ELSE {}
        derive == positions \ skipped
        blobs == UNION {DerivationBlobs(kind, csids[i]) : i \in derive}
        unwritten == UNION {DerivationBlobs(kind, csids[i]) : i \in skipped}
                        \ blobs
        values == [derive ->
                      {NoneVal} \cup UNION {{Handle(kind, csids[i]),
                                             WrongHandle(kind, csids[i])} :
                                            i \in derive}]
        faulty == { o \in [derived : values,
                           dropped : SubsetsUpTo(blobs, MaxFaults)] :
                      /\ \A i \in derive :
                           o.derived[i] \in {NoneVal, Handle(kind, csids[i]),
                                             WrongHandle(kind, csids[i])}
                      /\ Cardinality({i \in derive :
                                        o.derived[i] # Handle(kind, csids[i])})
                           + Cardinality(o.dropped) <= MaxFaults }
    IN  {[derived |-> [i \in positions |->
                          IF i \in skipped THEN NoneVal ELSE o.derived[i]],
          dropped |-> o.dropped \cup unwritten] : o \in faulty}

\* the blobs a re-derivation of the commits at `positions` reads: what was
\* derived for each parent, and with regenerate_skips_derived the derived
\* value of each commit (for the kinds mapped in the blobstore)
RegenerateReads(kind, positions) ==
    LET parents == UNION {{cs_parents[csids[i]][j] :
                             j \in 1..Len(cs_parents[csids[i]])} :
                          i \in positions}
    IN  IF kind = HGCHANGESETS
        THEN {HgChangesetKey(Handle(kind, p)) : p \in parents}
        ELSE {DerivedKey(p) : p \in parents}
             \cup (IF regenerate_skips_derived
                   THEN {DerivedKey(csids[i]) : i \in positions} ELSE {})

\* regenerate_derived_data(ctx, repo, chunk, [kind], opts): every write goes
\* through the repo view it is given
RegenerateDerivedData(repo, kind, positions, o) ==
    LET mapped == {i \in positions : o.derived[i] # NoneVal}
        blobs  == UNION {DerivationBlobs(kind, csids[i]) : i \in positions}
                    \ o.dropped
        pos_of(c) == CHOOSE i \in mapped : csids[i] = c
        mapping_blobs == IF kind = HGCHANGESETS THEN {}
                         ELSE {DerivedKey(csids[i]) : i \in mapped}
        blob_kvs == [k \in blobs \cup mapping_blobs |->
                        IF k \in mapping_blobs THEN o.derived[pos_of(k[2])]
                        ELSE BlobBytes]
        map_kvs == [c \in {csids[i] : i \in mapped} |-> o.derived[pos_of(c)]]
    IN  /\ RepoBlobGetAndPutAll(repo, RegenerateReads(kind, positions), blob_kvs)
        /\ IF kind = HGCHANGESETS
           THEN RepoMappingAddAll(repo, map_kvs)
           ELSE UNCHANGED <<inner_bonsai_hg_mapping, membonsaihgmapping>>

(***************************************************************************)
(* Initial states.                                                         *)
(***************************************************************************)
NewTask == [pc |-> "idle", real |-> NoneVal, rederived |-> NoneVal,
            checked |-> {}, mf_entries |-> {}, warned |-> FALSE]

\* the repository history: 1 is a root commit, 2 and 3 are its children,
\* 4 merges 2 and 3
History == <<1, 2, 3, 4>>

\* the contiguous ranges of the history of at most MaxLen commits
Ranges ==
    {SubSeq(History, a, b) : a \in 1..Len(History), b \in 1..Len(History)}

\* everything every commit derives is already in the durable stores
DurableBlobstore ==
    LET blobs == UNION {DerivationBlobs(derived_data_type, c) : c \in DOMAIN root_mf}
        maps  == IF derived_data_type = HGCHANGESETS THEN {}
                 ELSE {DerivedKey(c) : c \in DOMAIN root_mf}
    IN  [k \in blobs \cup maps |->
            IF k \in maps THEN Handle(derived_data_type, k[2]) ELSE BlobBytes]

DurableBonsaiHgMapping == [c \in DOMAIN root_mf |-> Handle(HGCHANGESETS, c)]

(***************************************************************************)
(* metaconfig/parser/src/repoconfig.rs: the values RepoConfigs reads and   *)
(* builds.  Strings that the code takes apart are sequences of tokens.     *)
(***************************************************************************)
Some(x) == <<"some", x>>
IsSome(o) == o[1] = "some"
IsNone(o) == o[1] = "none"
Unwrap(o) == o[2]

OkR(x) == <<"ok", x>>
ErrR(e) == <<"err", e>>
IsOk(r) == r[1] = "ok"
IsErr(r) == r[1] = "err"

\* ErrorKind
InvalidPushvar(s) == <<"InvalidPushvar", s>>
TooManyBypassOptions(name) == <<"TooManyBypassOptions", name>>
InvalidFileStructure(msg) == <<"InvalidFileStructure", msg>>
InvalidConfig(msg) == <<"InvalidConfig", msg>>
MissingPath == <<"MissingPath">>
\* failure_ext's .context(..) around an error
Context(msg, e) == <<"Context", msg, e>>

\* HookBypass
CommitMessage(s) == <<"CommitMessage", s>>
Pushvar(name, value) == <<"Pushvar", name, value>>

\* WhitelistEntry
Tier(t) == <<"Tier", t>>
HardcodedIdentity(ty, data) == <<"HardcodedIdentity", ty, data>>

\* the bypass_pushvar strings: every string of at most MaxPushvarLen
\* characters over a letter and the separator
PushvarChars == {"v", "="}
Pushvars == UNION {[1..n -> PushvarChars] : n \in 0..MaxPushvarLen}

\* hook names: a rust hook, and one whose code is loaded from `path`
RustPrefix == "rust:"
HookNames == {<<RustPrefix, "hook1">>, <<"hook2">>}
StartsWith(name, prefix) == Len(name) >= 1 /\ name[1] = prefix

RawHookConfigs ==
    [name : HookNames,
     path : {NoneVal, Some("./hook2.lua")},
     bypass_commit_string : {NoneVal, Some("@allow_hook")},
     bypass_pushvar : {NoneVal} \cup {Some(s) : s \in Pushvars}]

RawWhitelistEntries ==
    [tier : {NoneVal, Some("tier1"), Some("tier2")},
     identity_type : {NoneVal, Some("username")},
     identity_data : {NoneVal, Some("user")}]

\* s.split('='): the pieces between the separators, empty ones included
RECURSIVE Split(_)
Split(s) ==
    IF s = <<>> THEN << <<>> >>
    ELSE LET rest == Split(Tail(s))
         IN  IF Head(s) = "=" THEN << <<>> >> \o rest
             ELSE << <<Head(s)>> \o Head(rest) >> \o Tail(rest)

\* mutant: with both bypasses given the commit message wins, and a pushvar
\* is cut at its first separator whatever follows
GetBypassLenient(raw_hook_config) ==
    IF IsSome(raw_hook_config.bypass_commit_string)
    THEN OkR(Some(CommitMessage(Unwrap(raw_hook_config.bypass_commit_string))))
    ELSE IF IsNone(raw_hook_config.bypass_pushvar) THEN OkR(NoneVal)
    ELSE LET pushvar == Split(Unwrap(raw_hook_config.bypass_pushvar)) \o << <<>> >>
         IN  OkR(Some(Pushvar(pushvar[1], pushvar[2])))

\* RepoConfigs::get_bypass
GetBypass(raw_hook_config) ==
    LET bypass_commit_message ==
            IF IsSome(raw_hook_config.bypass_commit_string)
            THEN Some(CommitMessage(Unwrap(raw_hook_config.bypass_commit_string)))
            ELSE NoneVal
        s == Unwrap(raw_hook_config.bypass_pushvar)
        pushvar == Split(s)
        split == IF IsNone(raw_hook_config.bypass_pushvar) THEN NoneVal
                 ELSE IF Len(pushvar) # 2 THEN Some(ErrR(InvalidPushvar(s)))
                 ELSE Some(OkR(<<pushvar[1], pushvar[2]>>))
        bypass_pushvar ==
            IF IsNone(split) THEN NoneVal
            ELSE Some(Pushvar(Unwrap(Unwrap(split))[1], Unwrap(Unwrap(split))[2]))
    IN  IF IsSome(split) /\ IsErr(Unwrap(split)) THEN Unwrap(split)
        ELSE IF IsSome(bypass_commit_message) /\ IsSome(bypass_pushvar)
        THEN ErrR(TooManyBypassOptions(raw_hook_config.name))
        ELSE OkR(IF IsSome(bypass_commit_message) THEN bypass_commit_message
                 ELSE bypass_pushvar)

\* HookParams of a hook whose bypass is `bypass`: rust hooks carry no code
HookParams(raw_hook_config, bypass, code) ==
    [name |-> raw_hook_config.name, code |-> code, bypass |-> bypass]

\* the body of the loop over the hooks in read_single_repo_config: the
\* HookParams to push, or the error to return
LoadHook(raw_hook_config) ==
    LET bypass == GetBypass(raw_hook_config)
    IN  IF IsErr(bypass) THEN bypass
        ELSE IF StartsWith(raw_hook_config.name, RustPrefix)
        THEN OkR(HookParams(raw_hook_config, Unwrap(bypass), NoneVal))
        ELSE IF IsNone(raw_hook_config.path) THEN ErrR(MissingPath)
        ELSE OkR(HookParams(raw_hook_config, Unwrap(bypass), Some("code")))

\* mutant: an entry with a tier is a Tier whatever else it has, and any
\* other entry is an identity
WhitelistEntryOfLenient(e) ==
    IF IsSome(e.tier) THEN OkR(Tier(Unwrap(e.tier)))
    ELSE OkR(HardcodedIdentity(
                IF IsSome(e.identity_type) THEN Unwrap(e.identity_type) ELSE "",
                IF IsSome(e.identity_data) THEN Unwrap(e.identity_data) ELSE ""))

\* the closure read_common_config maps over the whitelist entries
WhitelistEntryOf(e) ==
    LET has_tier == IsSome(e.tier)
        has_identity == IsSome(e.identity_type)
    IN  IF IsNone(e.identity_data) # IsNone(e.identity_type)
        THEN ErrR(InvalidFileStructure("identity type and data must be specified"))
        ELSE IF has_tier /\ has_identity
        THEN ErrR(InvalidFileStructure("tier and identity cannot be both specified"))
        ELSE IF ~has_tier /\ ~has_identity
        THEN ErrR(InvalidFileStructure("tier or identity must be specified"))
        ELSE IF IsSome(e.tier) THEN OkR(Tier(Unwrap(e.tier)))
        ELSE OkR(HardcodedIdentity(Unwrap(e.identity_type),
                                   Unwrap(e.identity_data)))

NoConfigs == NoneVal

\* read_configs has not been called
ReaderIdle ==
    /\ hooks = <<>>
    /\ path = NoneVal
    /\ whitelist_entry = NoneVal
    /\ reader_pc = "idle"
    /\ all_hook_params = <<>>
    /\ tiers_num = 0
    /\ whitelisted_entries = OkR(<<>>)
    /\ configs = NoConfigs

\* no derivation is writing
WritersIdle == pending_puts = <<>>

InitStores ==
    /\ inner_blobstore = DurableBlobstore
    /\ inner_bonsai_hg_mapping = DurableBonsaiHgMapping

InitRun ==
    /\ pc = "start"
    /\ repo_opened = FALSE
    /\ offset = 0
    /\ memblobstore = NoOverlay
    /\ membonsaihgmapping = NoOverlay
    /\ task = [i \in 1..Len(csids) |-> NewTask]
    /\ overlays_built = 0
    /\ regenerate_calls = 0
    /\ chunks_passed = 0
    /\ result = NoResult

\* runs over a fixed history: every range, chunk size and kind
InitHistory ==
    /\ readonly_storage \in BOOLEAN
    /\ derived_data_type \in Kinds
    /\ csids \in {r \in Ranges : Len(r) <= MaxLen}
    /\ validate_chunk_size \in 1..MaxLen
    /\ cs_parents = <<<<>>, <<1>>, <<1>>, <<2, 3>>>>
    /\ root_mf = <<"R1", "R2", "R3", "R4">>
    /\ regenerate_skips_derived \in BOOLEAN
    /\ InitStores
    /\ InitRun
    /\ ReaderIdle
    /\ WritersIdle

\* runs over one commit, 4, with every choice of its manifest and of the
\* manifests of its at most MaxParents parents
InitManifests ==
    /\ readonly_storage = TRUE
    /\ derived_data_type \in {FSNODES, UNODES, HGCHANGESETS}
    /\ csids = <<4>>
    /\ validate_chunk_size = 1
    /\ \E n \in 0..Min(MaxParents, 3) :
          /\ cs_parents = <<<<>>, <<>>, <<>>, SubSeq(<<1, 2, 3>>, 1, n)>>
          /\ root_mf \in {m \in [Commits -> RootIds] : \A c \in (n + 1)..3 : m[c] = "R1"}
    /\ regenerate_skips_derived = FALSE
    /\ InitStores
    /\ InitRun
    /\ ReaderIdle
    /\ WritersIdle

\* the chunk size when ARG_VALIDATE_CHUNK_SIZE is not given
DefaultChunkSize == 10000

\* one commit more than the stream runs at a time
WideLen == ConcurrencyLimit + 1

\* a run over one chunk of WideLen unrelated commits with empty manifests,
\* where the re-derivation leaves out what is already derived
InitWide ==
    /\ readonly_storage = TRUE
    /\ derived_data_type = FSNODES
    /\ csids = [i \in 1..WideLen |-> i]
    /\ validate_chunk_size = DefaultChunkSize
    /\ cs_parents = [c \in 1..WideLen |-> <<>>]
    /\ root_mf = [c \in 1..WideLen |-> "R7"]
    /\ regenerate_skips_derived = TRUE
    /\ InitStores
    /\ InitRun
    /\ ReaderIdle
    /\ WritersIdle

Init == InitHistory \/ InitManifests \/ InitWide

(***************************************************************************)
(* validate: the driver.                                                   *)
(***************************************************************************)
\* mutant: the error is recorded but the stream goes on polling
FailWithoutStopping(e) ==
    /\ result' = e
    /\ UNCHANGED pc

\* return Err(e), directly or through `?`: validate is over
Fail(e) ==
    /\ result' = e
    /\ pc' = "done"

\* the error a collaborator call returns when the store, the mapping or the
\* backend under it fails
UpstreamError(call) == Err("upstream", NoCs, <<"io", call>>, NoneVal, NoneVal)

\* mutant: the error of a collaborator is replaced by one of validate's own
PropagateRewritten(e) == Fail([e EXCEPT !.type = "failed", !.key = NoneVal])

\* the `?` after a collaborator call: its error is the error of validate
Propagate(e) == Fail(e)

\* one of `calls` fails; nothing but the result changes
Upstream(calls) ==
    /\ \E call \in calls : Propagate(UpstreamError(call))
    /\ UNCHANGED <<env, inner_blobstore, inner_bonsai_hg_mapping, repo_opened,
                   offset, memblobstore, membonsaihgmapping, task,
                   overlays_built, regenerate_calls, chunks_passed>>

\* mutant: the read-only precondition is not checked
CheckReadonlyStorageUnchecked ==
    /\ pc = "start"
    /\ pc' = "open"
    /\ UNCHANGED <<env, inner_blobstore, inner_bonsai_hg_mapping, repo_opened,
                   offset, memblobstore, membonsaihgmapping, task,
                   overlays_built, regenerate_calls, chunks_passed, result>>

\* if !matches.environment().readonly_storage.0 { return Err(..) }
CheckReadonlyStorage ==
    /\ pc = "start"
    /\ IF ~readonly_storage
       THEN Fail(Err("not_readonly", NoCs, NoneVal, NoneVal, NoneVal))
       ELSE pc' = "open" /\ UNCHANGED result
    /\ UNCHANGED <<env, inner_blobstore, inner_bonsai_hg_mapping, repo_opened,
                   offset, memblobstore, membonsaihgmapping, task,
                   overlays_built, regenerate_calls, chunks_passed>>

\* open_repo_unredacted, the commit list, the kind, the options, the chunk size
OpenRepo ==
    /\ pc = "open"
    /\ \/ Upstream({"open_repo_unredacted"})
       \/ /\ repo_opened' = TRUE
          /\ pc' = "chunks"
          /\ UNCHANGED <<env, inner_blobstore, inner_bonsai_hg_mapping, offset,
                         memblobstore, membonsaihgmapping, task, overlays_built,
                         regenerate_calls, chunks_passed, result>>

\* mutant: one overlay pair serves every chunk: a chunk after the first
\* finds the derived values of the commits before it in the logs and the
\* flags as the chunk before left them
StartChunkCarriesOverlays ==
    /\ pc = "chunks"
    /\ offset < Len(csids)
    /\ LET before == {csids[j] : j \in 1..offset}
           locked == offset > 0
       IN  /\ memblobstore' =
                 [MemWritesBlobstoreNew EXCEPT
                     !.cache = [k \in {DerivedKey(c) : c \in before} |->
                                   Handle(derived_data_type, k[2])],
                     !.no_access_to_inner = locked]
           /\ membonsaihgmapping' =
                 [MemWritesBonsaiHgMappingNew EXCEPT
                     !.cache = [c \in before |-> Handle(HGCHANGESETS, c)],
                     !.no_access_to_inner = locked,
                     !.readonly = locked,
                     !.save_noop_writes = TRUE]
    /\ overlays_built' = overlays_built + 1
    /\ pc' = "regenerate"
    /\ UNCHANGED <<env, inner_blobstore, inner_bonsai_hg_mapping, repo_opened,
                   offset, task, regenerate_calls, chunks_passed, result>>

\* mutant: membonsaihgmapping.set_save_noop_writes(true) is left out
StartChunkDefaultNoopWrites ==
    /\ pc = "chunks"
    /\ offset < Len(csids)
    /\ memblobstore' = MemWritesBlobstoreNew
    /\ membonsaihgmapping' = MemWritesBonsaiHgMappingNew
    /\ overlays_built' = overlays_built + 1
    /\ pc' = "regenerate"
    /\ UNCHANGED <<env, inner_blobstore, inner_bonsai_hg_mapping, repo_opened,
                   offset, task, regenerate_calls, chunks_passed, result>>

\* the head of the loop body: the chunk's overlay pair is built and
\* set_save_noop_writes(true)
StartChunk ==
    /\ pc = "chunks"
    /\ offset < Len(csids)
    /\ memblobstore' = MemWritesBlobstoreNew
    /\ membonsaihgmapping' =
          [MemWritesBonsaiHgMappingNew EXCEPT !.save_noop_writes = TRUE]
    /\ overlays_built' = overlays_built + 1
    /\ pc' = "regenerate"
    /\ UNCHANGED <<env, inner_blobstore, inner_bonsai_hg_mapping, repo_opened,
                   offset, task, regenerate_calls, chunks_passed, result>>

\* mutant: the re-derivation is handed the repository without the overlays
RegenerateThroughOrigRepo ==
    /\ pc = "regenerate"
    /\ \E o \in RegenerateOutcomes(OrigRepo, derived_data_type,
                                     ChunkPositions(offset)) :
          RegenerateDerivedData(OrigRepo, derived_data_type,
                                ChunkPositions(offset), o)
    /\ regenerate_calls' = regenerate_calls + 1
    /\ pc' = "cache_len"
    /\ UNCHANGED <<env, repo_opened, offset, task, overlays_built,
                   chunks_passed, result>>

\* mutant: the verification starts right after the re-derivation, the
\* overlays still as they were built
RegenerateThenVerify ==
    /\ pc = "regenerate"
    /\ \E o \in RegenerateOutcomes(OverlayRepo, derived_data_type,
                                     ChunkPositions(offset)) :
          RegenerateDerivedData(OverlayRepo, derived_data_type,
                                ChunkPositions(offset), o)
    /\ regenerate_calls' = regenerate_calls + 1
    /\ pc' = "verify"
    /\ UNCHANGED <<env, repo_opened, offset, task, overlays_built,
                   chunks_passed, result>>

\* regenerate::regenerate_derived_data(&ctx, &repo, chunk.clone(), ..).await?
Regenerate ==
    /\ pc = "regenerate"
    /\ \/ /\ \E call \in {"regenerate_derived_data"} :
                Propagate(UpstreamError(call))
          /\ regenerate_calls' = regenerate_calls + 1
          /\ UNCHANGED <<env, inner_blobstore, inner_bonsai_hg_mapping,
                         repo_opened, offset, memblobstore, membonsaihgmapping,
                         task, overlays_built, chunks_passed>>
       \/ /\ \E o \in RegenerateOutcomes(OverlayRepo, derived_data_type,
                                           ChunkPositions(offset)) :
                RegenerateDerivedData(OverlayRepo, derived_data_type,
                                      ChunkPositions(offset), o)
          /\ regenerate_calls' = regenerate_calls + 1
          /\ pc' = "cache_len"
          /\ UNCHANGED <<env, repo_opened, offset, task, overlays_built,
                         chunks_passed, result>>

\* let cache = memblobstore.get_cache().lock().unwrap()
LockCache ==
    /\ pc = "cache_len"
    /\ ~memblobstore.cache_locked
    /\ memblobstore' = [memblobstore EXCEPT !.cache_locked = TRUE]
    /\ UNCHANGED <<env, inner_blobstore, inner_bonsai_hg_mapping, repo_opened,
                   offset, membonsaihgmapping, task, overlays_built,
                   regenerate_calls, chunks_passed, pc, result>>

\* mutant: the guard is bound in the loop body, not in a block of its own:
\* it lives on after the length is logged
LogCacheLenKeepsGuard ==
    /\ pc = "cache_len"
    /\ memblobstore.cache_locked
    /\ pc' = "lockdown"
    /\ UNCHANGED <<env, inner_blobstore, inner_bonsai_hg_mapping, repo_opened,
                   offset, memblobstore, membonsaihgmapping, task,
                   overlays_built, regenerate_calls, chunks_passed, result>>

\* info!(ctx.logger(), "created {} blobs", cache.len()); the block ends and
\* the guard is dropped
LogCacheLen ==
    /\ pc = "cache_len"
    /\ memblobstore.cache_locked
    /\ memblobstore' = [memblobstore EXCEPT !.cache_locked = FALSE]
    /\ pc' = "lockdown"
    /\ UNCHANGED <<env, inner_blobstore, inner_bonsai_hg_mapping, repo_opened,
                   offset, membonsaihgmapping, task, overlays_built,
                   regenerate_calls, chunks_passed, result>>

\* mutant: memblobstore.set_no_access_to_inner(true) is left out
LockDownKeepsFallback ==
    /\ pc = "lockdown"
    /\ membonsaihgmapping' = [membonsaihgmapping EXCEPT
                                 !.no_access_to_inner = TRUE, !.readonly = TRUE]
    /\ pc' = "verify"
    /\ UNCHANGED <<env, inner_blobstore, inner_bonsai_hg_mapping, repo_opened,
                   offset, task, overlays_built, regenerate_calls,
                   chunks_passed, result, memblobstore>>

\* mutant: only the blobstore overlay is locked down, the mapping overlay
\* stays as it was built
LockDownStoreOnly ==
    /\ pc = "lockdown"
    /\ memblobstore' = [memblobstore EXCEPT !.no_access_to_inner = TRUE]
    /\ pc' = "verify"
    /\ UNCHANGED <<env, inner_blobstore, inner_bonsai_hg_mapping, repo_opened,
                   offset, task, overlays_built, regenerate_calls,
                   chunks_passed, result, membonsaihgmapping>>

\* mutant: membonsaihgmapping.set_readonly(true) is left out
LockDownMappingWritable ==
    /\ pc = "lockdown"
    /\ membonsaihgmapping' = [membonsaihgmapping EXCEPT
                                 !.no_access_to_inner = TRUE]
    /\ memblobstore' = [memblobstore EXCEPT !.no_access_to_inner = TRUE]
    /\ pc' = "verify"
    /\ UNCHANGED <<env, inner_blobstore, inner_bonsai_hg_mapping, repo_opened,
                   offset, task, overlays_built, regenerate_calls,
                   chunks_passed, result>>

\* set_no_access_to_inner(true) and set_readonly(true) on the mapping,
\* set_no_access_to_inner(true) on the blobstore
LockDown ==
    /\ pc = "lockdown"
    /\ \/ Upstream({"derived_data_utils"})
       \/ /\ membonsaihgmapping' = [membonsaihgmapping EXCEPT
                                       !.no_access_to_inner = TRUE,
                                       !.readonly = TRUE]
          /\ memblobstore' = [memblobstore EXCEPT !.no_access_to_inner = TRUE]
          /\ pc' = "verify"
          /\ UNCHANGED <<env, inner_blobstore, inner_bonsai_hg_mapping,
                         repo_opened, offset, task, overlays_built,
                         regenerate_calls, chunks_passed, result>>

(***************************************************************************)
(* validate: the per-commit tasks of try_for_each_concurrent.              *)
(***************************************************************************)
InFlight == {i \in ChunkPositions(offset) : task[i].pc \notin {"idle", "done"}}

TaskFrame ==
    UNCHANGED <<env, inner_blobstore, inner_bonsai_hg_mapping, repo_opened,
                offset, memblobstore, membonsaihgmapping, overlays_built,
                regenerate_calls, chunks_passed>>

\* mutant: the stream runs every commit of the chunk at once
StartTaskUnbounded(i) ==
    /\ pc = "verify"
    /\ i \in ChunkPositions(offset)
    /\ task[i].pc = "idle"
    /\ \A j \in ChunkPositions(offset) : j < i => task[j].pc # "idle"
    /\ task' = [task EXCEPT ![i].pc = "is_derived"]
    /\ UNCHANGED <<pc, result>>
    /\ TaskFrame

\* the stream hands the next commit to the closure: at most
\* ConcurrencyLimit futures at a time, in list order
StartTask(i) ==
    /\ pc = "verify"
    /\ i \in ChunkPositions(offset)
    /\ task[i].pc = "idle"
    /\ \A j \in ChunkPositions(offset) : j < i => task[j].pc # "idle"
    /\ Cardinality(InFlight) < ConcurrencyLimit
    /\ task' = [task EXCEPT ![i].pc = "is_derived"]
    /\ UNCHANGED <<pc, result>>
    /\ TaskFrame

\* mutant: the answer of is_derived is not looked at
CheckIsDerivedIgnored(i) ==
    /\ pc = "verify"
    /\ task[i].pc = "is_derived"
    /\ task' = [task EXCEPT ![i].pc = "derive"]
    /\ UNCHANGED <<pc, result>>
    /\ TaskFrame

\* mutant: once the commit is known to be derived the mapping overlay is
\* given its fallback back for the derivations that follow
CheckIsDerivedRestoresFallback(i) ==
    /\ pc = "verify"
    /\ task[i].pc = "is_derived"
    /\ IsDerived(ReadOnlyRepo, derived_data_type, csids[i])
    /\ task' = [task EXCEPT ![i].pc = "derive"]
    /\ membonsaihgmapping' =
          [membonsaihgmapping EXCEPT !.no_access_to_inner = FALSE]
    /\ UNCHANGED <<env, inner_blobstore, inner_bonsai_hg_mapping, repo_opened,
                   offset, memblobstore, overlays_built, regenerate_calls,
                   chunks_passed, pc, result>>

\* mutant: a commit that is not derived in the overlay is waited for
\* instead of being reported
CheckIsDerivedWaits(i) ==
    /\ pc = "verify"
    /\ task[i].pc = "is_derived"
    /\ IsDerived(ReadOnlyRepo, derived_data_type, csids[i])
    /\ \/ Upstream({"is_derived"})
       \/ /\ task' = [task EXCEPT ![i].pc = "derive"]
          /\ UNCHANGED <<pc, result>>
          /\ TaskFrame

\* if !rederived_utils.is_derived(&ctx, csid).await? { return Err(..) }
CheckIsDerived(i) ==
    /\ pc = "verify"
    /\ task[i].pc = "is_derived"
    /\ \/ Upstream({"is_derived"})
       \/ /\ IF ~IsDerived(ReadOnlyRepo, derived_data_type, csids[i])
             THEN /\ Fail(Err("not_derived", csids[i], NoneVal, NoneVal, NoneVal))
                  /\ UNCHANGED task
             ELSE /\ task' = [task EXCEPT ![i].pc = "derive"]
                  /\ UNCHANGED <<pc, result>>
          /\ TaskFrame

\* mutant: the two values are not compared
CompareAlwaysEqual(i, real, rederived) ==
    /\ task' = [task EXCEPT ![i].real = real, ![i].rederived = rederived,
                            ![i].pc = "validate"]
    /\ UNCHANGED <<pc, result>>

\* mutant: the mismatch error carries neither the commit nor the values
CompareUnnamed(i, real, rederived) ==
    IF real # rederived
    THEN /\ Fail(Err("mismatch", NoCs, NoneVal, NoneVal, NoneVal))
         /\ task' = [task EXCEPT ![i].real = real, ![i].rederived = rederived]
    ELSE /\ task' = [task EXCEPT ![i].real = real, ![i].rederived = rederived,
                                 ![i].pc = "validate"]
         /\ UNCHANGED <<pc, result>>

\* what follows try_join(f1, f2).await? once both values are there
Compare(i, real, rederived) ==
    IF real # rederived
    THEN /\ Fail(Err("mismatch", csids[i], NoneVal, real, rederived))
         /\ task' = [task EXCEPT ![i].real = real, ![i].rederived = rederived]
    ELSE /\ task' = [task EXCEPT ![i].real = real, ![i].rederived = rederived,
                                 ![i].pc = "validate"]
         /\ UNCHANGED <<pc, result>>

\* mutant: the comparison is made as soon as f1 completes, with whatever
\* f2 has delivered by then
DeriveRealComparesAtOnce(i) ==
    /\ pc = "verify"
    /\ task[i].pc = "derive"
    /\ task[i].real = NoneVal
    /\ Compare(i, FetchDerived(OrigRepo, derived_data_type, csids[i]),
               task[i].rederived)
    /\ TaskFrame

\* f1 = real_derived_utils.derive(ctx, orig_repo, csid) completes
DeriveReal(i) ==
    /\ pc = "verify"
    /\ task[i].pc = "derive"
    /\ task[i].real = NoneVal
    /\ \/ Upstream({"derive"})
       \/ /\ LET real == FetchDerived(OrigRepo, derived_data_type, csids[i])
             IN  IF task[i].rederived = NoneVal
                 THEN /\ task' = [task EXCEPT ![i].real = real]
                      /\ UNCHANGED <<pc, result>>
                 ELSE Compare(i, real, task[i].rederived)
          /\ TaskFrame

\* mutant: the second derivation writes what it derived under a key of its own
DeriveRederivedWritesAgain(i) ==
    /\ pc = "verify"
    /\ task[i].pc = "derive"
    /\ task[i].rederived = NoneVal
    /\ task[i].real = NoneVal
    /\ task' = [task EXCEPT ![i].rederived =
                    FetchDerived(ReadOnlyRepo, derived_data_type, csids[i])]
    /\ memblobstore' = MemWritesPutAll(memblobstore,
                           [k \in {<<"derived again", csids[i]>>} |-> BlobBytes])
    /\ UNCHANGED <<env, inner_blobstore, inner_bonsai_hg_mapping, repo_opened,
                   offset, membonsaihgmapping, overlays_built, regenerate_calls,
                   chunks_passed, pc, result>>

\* mutant: f2 derives against the repository without the overlays
DeriveRederivedFromOrigRepo(i) ==
    /\ pc = "verify"
    /\ task[i].pc = "derive"
    /\ task[i].rederived = NoneVal
    /\ LET rederived == FetchDerived(OrigRepo, derived_data_type, csids[i])
       IN  IF task[i].real = NoneVal
           THEN /\ task' = [task EXCEPT ![i].rederived = rederived]
                /\ UNCHANGED <<pc, result>>
           ELSE Compare(i, task[i].real, rederived)
    /\ TaskFrame

\* f2 = rederived_utils.derive(ctx, repo, csid) completes
DeriveRederived(i) ==
    /\ pc = "verify"
    /\ task[i].pc = "derive"
    /\ task[i].rederived = NoneVal
    /\ \/ Upstream({"derive"})
       \/ /\ LET rederived == FetchDerived(ReadOnlyRepo, derived_data_type,
                                            csids[i])
             IN  IF task[i].real = NoneVal
                 THEN /\ task' = [task EXCEPT ![i].rederived = rederived]
                      /\ UNCHANGED <<pc, result>>
                 ELSE Compare(i, task[i].real, rederived)
          /\ TaskFrame

\* the collaborator calls validate_generated_data makes for a commit:
\* none for a kind without a branch; the parents are fetched, the derived
\* values looked up and the root manifest loaded; the overlay is read if
\* something is to be checked
ValidateCalls(kind, cs_id) ==
    IF kind \notin {FSNODES, SKELETON_MANIFESTS, UNODES, HGCHANGESETS} THEN {}
    ELSE {"get_parents", "fetch_derived", "load"}
         \cup (IF \E o \in ValidateGeneratedData(OrigRepo, kind, cs_id, ReadOnlyRepo) :
                     o.checked # {}
               THEN {"get"} ELSE {})

\* mutant: the stream is raced for its first result: once a task of the
\* chunk is Ok the failure of a task still running is dropped
ValidateFirstResultWins(i) ==
    /\ pc = "verify"
    /\ task[i].pc = "validate"
    /\ \E o \in ValidateGeneratedData(OrigRepo, derived_data_type,
                                      csids[i], ReadOnlyRepo) :
          LET ok == \/ o.result = Ok
                    \/ \E j \in ChunkPositions(offset) : task[j].pc = "done"
          IN  /\ task' = [task EXCEPT
                             ![i].checked = o.checked,
                             ![i].mf_entries = o.mf_entries,
                             ![i].warned = o.warned,
                             ![i].pc = IF ok THEN "done" ELSE @]
              /\ IF ok THEN UNCHANGED <<pc, result>>
                 ELSE Fail(o.result)
    /\ TaskFrame

\* validate_generated_data(&ctx, &orig_repo, real_derived_utils, csid, repo).await
Validate(i) ==
    /\ pc = "verify"
    /\ task[i].pc = "validate"
    /\ \/ Upstream(ValidateCalls(derived_data_type, csids[i]))
       \/ /\ \E o \in ValidateGeneratedData(OrigRepo, derived_data_type,
                                            csids[i], ReadOnlyRepo) :
                /\ task' = [task EXCEPT
                               ![i].checked = o.checked,
                               ![i].mf_entries = o.mf_entries,
                               ![i].warned = o.warned,
                               ![i].pc = IF o.result = Ok THEN "done" ELSE @]
                /\ IF o.result = Ok THEN UNCHANGED <<pc, result>>
                   ELSE Fail(o.result)
          /\ TaskFrame

\* mutant: the loop moves on as soon as one task of the chunk is Ok
FinishChunkEarly ==
    /\ pc = "verify"
    /\ \E i \in ChunkPositions(offset) : task[i].pc = "done"
    /\ chunks_passed' = chunks_passed + 1
    /\ offset' = offset + Cardinality(ChunkPositions(offset))
    /\ memblobstore' = NoOverlay
    /\ membonsaihgmapping' = NoOverlay
    /\ pc' = "chunks"
    /\ UNCHANGED <<env, inner_blobstore, inner_bonsai_hg_mapping, repo_opened,
                   task, overlays_built, regenerate_calls, result>>

\* mutant: the list is walked in windows, not in chunks: the next turn of
\* the loop starts one commit further on
FinishChunkSlides ==
    /\ pc = "verify"
    /\ \A i \in ChunkPositions(offset) : task[i].pc = "done"
    /\ chunks_passed' = chunks_passed + 1
    /\ offset' = offset + 1
    /\ memblobstore' = NoOverlay
    /\ membonsaihgmapping' = NoOverlay
    /\ pc' = "chunks"
    /\ UNCHANGED <<env, inner_blobstore, inner_bonsai_hg_mapping, repo_opened,
                   task, overlays_built, regenerate_calls, result>>

\* the stream ends with every task Ok: "Validation successful!", the
\* overlay pair is dropped
FinishChunk ==
    /\ pc = "verify"
    /\ \A i \in ChunkPositions(offset) : task[i].pc = "done"
    /\ chunks_passed' = chunks_passed + 1
    /\ offset' = offset + Cardinality(ChunkPositions(offset))
    /\ memblobstore' = NoOverlay
    /\ membonsaihgmapping' = NoOverlay
    /\ pc' = "chunks"
    /\ UNCHANGED <<env, inner_blobstore, inner_bonsai_hg_mapping, repo_opened,
                   task, overlays_built, regenerate_calls, result>>

\* the loop is over: Ok(())
ReturnOk ==
    /\ pc = "chunks"
    /\ offset >= Len(csids)
    /\ result' = Ok
    /\ pc' = "done"
    /\ UNCHANGED <<env, inner_blobstore, inner_bonsai_hg_mapping, repo_opened,
                   offset, memblobstore, membonsaihgmapping, task,
                   overlays_built, regenerate_calls, chunks_passed>>

Next ==
    \/ CheckReadonlyStorage
    \/ OpenRepo
    \/ StartChunk
    \/ Regenerate
    \/ LockCache
    \/ LogCacheLen
    \/ LockDown
    \/ \E i \in 1..Len(csids) : StartTask(i)
    \/ \E i \in 1..Len(csids) : CheckIsDerived(i)
    \/ \E i \in 1..Len(csids) : DeriveReal(i)
    \/ \E i \in 1..Len(csids) : DeriveRederived(i)
    \/ \E i \in 1..Len(csids) : Validate(i)
    \/ FinishChunk
    \/ ReturnOk

Spec == Init /\ [][Next]_vars

\* one commit more than the longest list of a run over the history
ChunkedLen == Min(MaxLen + 1, Len(History))

\* runs over the first commits of the history, up to ChunkedLen of them,
\* with every chunk size up to one more than that
InitChunked ==
    /\ readonly_storage = TRUE
    /\ derived_data_type = FSNODES
    /\ csids \in {SubSeq(History, 1, n) : n \in 0..ChunkedLen}
    /\ validate_chunk_size \in 1..(ChunkedLen + 1)
    /\ cs_parents = <<<<>>, <<1>>, <<1>>, <<2, 3>>>>
    /\ root_mf = <<"R1", "R2", "R3", "R4">>
    /\ regenerate_skips_derived = FALSE
    /\ InitStores
    /\ InitRun
    /\ ReaderIdle
    /\ WritersIdle

\* the runs that split their list in every way, and the run with the
\* default chunk size
InitChunks == InitChunked \/ InitWide

SpecChunks == InitChunks /\ [][Next]_vars

\* the runs over the fixed history and the wide run
InitFair == InitHistory \/ InitWide

\* validate under an executor that keeps polling it and its stream, with
\* collaborators whose calls return: while a step can be taken, one is
\* eventually taken
SpecFair == InitFair /\ [][Next]_vars /\ WF_vars(Next)

(***************************************************************************)
(* RepoConfigs::read_configs over one repository directory (a blob:files   *)
(* repository) and the common directory, from the parsed server.toml and   *)
(* common.toml on.                                                         *)
(***************************************************************************)
SeqsUpTo(S, n) == UNION {[1..k -> S] : k \in 0..n}

\* validate is not run: nothing to validate, nothing opened
ValidationIdle ==
    /\ readonly_storage = TRUE
    /\ derived_data_type = FSNODES
    /\ csids = <<>>
    /\ validate_chunk_size = 1
    /\ cs_parents = <<>>
    /\ root_mf = <<>>
    /\ regenerate_skips_derived = FALSE
    /\ InitStores
    /\ InitRun

ReaderStart ==
    /\ reader_pc = "hooks"
    /\ all_hook_params = <<>>
    /\ tiers_num = 0
    /\ whitelisted_entries = OkR(<<>>)
    /\ configs = NoConfigs

\* every server.toml with at most MaxHooks hooks, no common.toml
InitHookConfigs ==
    /\ hooks \in SeqsUpTo(RawHookConfigs, MaxHooks)
    /\ path \in {NoneVal, Some("/repo")}
    /\ whitelist_entry = NoneVal
    /\ ReaderStart
    /\ ValidationIdle
    /\ WritersIdle

\* every common.toml with at most MaxEntries whitelist entries, no hooks
InitCommonConfigs ==
    /\ hooks = <<>>
    /\ path = Some("/repo")
    /\ whitelist_entry \in
          {NoneVal} \cup {Some(w) : w \in SeqsUpTo(RawWhitelistEntries, MaxEntries)}
    /\ ReaderStart
    /\ ValidationIdle
    /\ WritersIdle

InitConfigs == InitHookConfigs \/ InitCommonConfigs

\* return Err(e) from read_configs
ReaderFail(e) ==
    /\ configs' = ErrR(e)
    /\ reader_pc' = "done"

\* one turn of `for raw_hook_config in hooks`; an error leaves
\* read_single_repo_config through `?` and read_configs under a context
LoadNextHook ==
    /\ reader_pc = "hooks"
    /\ Len(all_hook_params) < Len(hooks)
    /\ LET hook_params == LoadHook(hooks[Len(all_hook_params) + 1])
       IN  IF IsErr(hook_params)
           THEN /\ ReaderFail(Context("while opening config", Unwrap(hook_params)))
                /\ UNCHANGED all_hook_params
           ELSE /\ all_hook_params' = Append(all_hook_params, Unwrap(hook_params))
                /\ UNCHANGED <<reader_pc, configs>>
    /\ UNCHANGED <<validation, writers, hooks, path, whitelist_entry, tiers_num,
                   whitelisted_entries>>

\* RepoConfigs::convert_conf for RawRepoType::Files: get_path(&this)?
ConvertConf ==
    /\ reader_pc = "hooks"
    /\ Len(all_hook_params) = Len(hooks)
    /\ IF IsNone(path)
       THEN ReaderFail(Context("while opening config",
                               InvalidConfig("No path provided")))
       ELSE reader_pc' = "common" /\ UNCHANGED configs
    /\ UNCHANGED <<validation, writers, hooks, path, whitelist_entry, all_hook_params,
                   tiers_num, whitelisted_entries>>

\* raw_config.whitelist_entry.unwrap_or(vec![])
RawWhitelist == IF IsSome(whitelist_entry) THEN Unwrap(whitelist_entry) ELSE <<>>

\* collect() pulls the next entry through the closure; it stops at the first Err
ReadWhitelistEntry ==
    /\ reader_pc = "common"
    /\ IsOk(whitelisted_entries)
    /\ Len(Unwrap(whitelisted_entries)) < Len(RawWhitelist)
    /\ LET raw == RawWhitelist[Len(Unwrap(whitelisted_entries)) + 1]
           entry == WhitelistEntryOf(raw)
       IN  IF IsErr(entry)
           THEN /\ whitelisted_entries' = entry
                /\ UNCHANGED tiers_num
           ELSE /\ whitelisted_entries' =
                       OkR(Append(Unwrap(whitelisted_entries), Unwrap(entry)))
                /\ tiers_num' = IF IsSome(raw.tier) THEN tiers_num + 1
                                ELSE tiers_num
    /\ UNCHANGED <<validation, writers, hooks, path, whitelist_entry, reader_pc,
                   all_hook_params, configs>>

CollectDone ==
    \/ IsErr(whitelisted_entries)
    \/ Len(Unwrap(whitelisted_entries)) = Len(RawWhitelist)

\* what read_configs returns when nothing failed
RepoConfigsOf(repo_hooks, security_config) ==
    OkR([repos |-> repo_hooks, common |-> security_config])

\* mutant: the number of tier entries is not checked
ReturnConfigsAnyTiers ==
    /\ reader_pc = "common"
    /\ CollectDone
    /\ IF IsErr(whitelisted_entries)
       THEN ReaderFail(Unwrap(whitelisted_entries))
       ELSE /\ configs' = RepoConfigsOf(all_hook_params, Unwrap(whitelisted_entries))
            /\ reader_pc' = "done"
    /\ UNCHANGED <<validation, writers, hooks, path, whitelist_entry, all_hook_params,
                   tiers_num, whitelisted_entries>>

\* if tiers_num > 1 { return Err(..) }; security_config: whitelisted_entries?
ReturnConfigs ==
    /\ reader_pc = "common"
    /\ CollectDone
    /\ IF tiers_num > 1
       THEN ReaderFail(InvalidFileStructure("only one tier is allowed"))
       ELSE IF IsErr(whitelisted_entries)
       THEN ReaderFail(Unwrap(whitelisted_entries))
       ELSE /\ configs' = RepoConfigsOf(all_hook_params, Unwrap(whitelisted_entries))
            /\ reader_pc' = "done"
    /\ UNCHANGED <<validation, writers, hooks, path, whitelist_entry, all_hook_params,
                   tiers_num, whitelisted_entries>>

NextConfigs ==
    \/ LoadNextHook
    \/ ConvertConf
    \/ ReadWhitelistEntry
    \/ ReturnConfigs

SpecConfigs == InitConfigs /\ [][NextConfigs]_vars

(***************************************************************************)
(* The re-derivation of one chunk, put by put: the derivations that        *)
(* regenerate_derived_data runs concurrently share the chunk's overlay     *)
(* store and each puts its blobs into it in its own order.  Blobs are      *)
(* content-addressed: a key stands for one content.                        *)
(***************************************************************************)
Writers == {"w1", "w2"}

PutKeySet == {TreeKey("R1"), TreeKey("S1"), LeafKey("f1")}

Contents == {"b1", "b2"}

\* the overlay pair of a chunk as StartChunk builds it, the re-derivation
\* under way, every writer with at most MaxPuts puts to make; what a key
\* carries is the same for every writer
InitPuts ==
    /\ readonly_storage = TRUE
    /\ derived_data_type = FSNODES
    /\ csids = <<>>
    /\ validate_chunk_size = 1
    /\ cs_parents = <<>>
    /\ root_mf = <<>>
    /\ regenerate_skips_derived = FALSE
    /\ InitStores
    /\ pc = "regenerate"
    /\ repo_opened = TRUE
    /\ offset = 0
    /\ memblobstore = MemWritesBlobstoreNew
    /\ membonsaihgmapping =
          [MemWritesBonsaiHgMappingNew EXCEPT !.save_noop_writes = TRUE]
    /\ task = <<>>
    /\ overlays_built = 1
    /\ regenerate_calls = 0
    /\ chunks_passed = 0
    /\ result = NoResult
    /\ ReaderIdle
    /\ \E content \in [PutKeySet -> Contents] :
          pending_puts \in
             [Writers -> SeqsUpTo({<<k, <<"bytes", content[k]>>>> : k \in PutKeySet},
                                  MaxPuts)]

\* a derivation puts its next blob: blobstore.put(key, bytes)
WriterPut(w) ==
    /\ pending_puts[w] # <<>>
    /\ LET put == Head(pending_puts[w])
       IN  memblobstore' =
              MemWritesPutAll(memblobstore, [k \in {put[1]} |-> put[2]])
    /\ pending_puts' = [pending_puts EXCEPT ![w] = Tail(@)]
    /\ UNCHANGED <<readonly_storage, derived_data_type, csids,
                   validate_chunk_size, cs_parents, root_mf,
                   regenerate_skips_derived, reader, inner_blobstore,
                   inner_bonsai_hg_mapping, pc, repo_opened, offset,
                   membonsaihgmapping, task, overlays_built, regenerate_calls,
                   chunks_passed, result>>

NextPuts == \E w \in Writers : WriterPut(w)

SpecPuts == InitPuts /\ [][NextPuts]_vars

(***************************************************************************)
(* Definitions the properties share.                                       *)
(***************************************************************************)
SupportedKinds == {FSNODES, SKELETON_MANIFESTS, UNODES, HGCHANGESETS}

Running == pc = "verify"

\* the positions whose task has got past the state `at`
Passed(i, at) ==
    CASE at = "is_derived" -> task[i].pc \in {"derive", "validate", "done"}
      [] at = "derive"     -> task[i].pc \in {"validate", "done"}
      [] OTHER             -> task[i].pc = "done"

\* the root tree of a commit's manifest and of its parents' manifests
RootOf(c) == root_mf[c]
ParentRootsOf(c) == [j \in 1..Len(cs_parents[c]) |-> root_mf[cs_parents[c][j]]]

\* the entries of the tree `root`, each with its path, that differ from the
\* entry at the same path in every one of the trees `parent_roots`
NewEntryPairs(root, parent_roots) ==
    {<<p, EntryAt(root, p)>> :
        p \in {q \in Paths :
                 /\ EntryAt(root, q) # NoEntry
                 /\ \A j \in DOMAIN parent_roots :
                       EntryAt(parent_roots[j], q) # EntryAt(root, q)}}

\* the blob keys the verification of commit c has to find in the overlay
ExpectedKeys(kind, c) ==
    ({MaybeKey(kind, pe[2]) : pe \in NewEntryPairs(RootOf(c), ParentRootsOf(c))}
        \ {NoneVal})
    \cup (IF kind = HGCHANGESETS THEN {HgChangesetKey(Handle(kind, c))} ELSE {})

NumChunks == (Len(csids) + validate_chunk_size - 1) \div validate_chunk_size

(***************************************************************************)
(* C1: if the storage was not opened read-only, validate returns an error  *)
(* at once: the repository is not opened, no overlay is built, no          *)
(* derivation is invoked and no chunk is processed.                        *)
(***************************************************************************)
C1_NotReadonlyRejectedAtOnce ==
    ~readonly_storage =>
        /\ pc \in {"start", "done"}
        /\ pc = "start" => result = NoResult
        /\ pc = "done" => result.type = "not_readonly"
        /\ ~repo_opened
        /\ overlays_built = 0
        /\ memblobstore = NoOverlay
        /\ membonsaihgmapping = NoOverlay
        /\ regenerate_calls = 0
        /\ chunks_passed = 0
        /\ offset = 0
        /\ \A i \in 1..Len(csids) : task[i] = NewTask

C1_Witness ==
    /\ ~readonly_storage
    /\ Len(csids) = 2
    /\ pc = "done"
    /\ result.type = "not_readonly"

(***************************************************************************)
(* C2: the run returns success only if every chunk completed and, for      *)
(* every commit of the list, the overlay-only view reported it derived,    *)
(* the real and the overlay values were equal and, for a supported kind,   *)
(* every blob key projected from the commit's diff entries was found in    *)
(* the overlay; otherwise it stops with the first fatal error, and no      *)
(* chunk that holds a failed commit is counted as passed.                  *)
(***************************************************************************)
CommitValidated(i) ==
    /\ task[i].pc = "done"
    /\ task[i].real = Handle(derived_data_type, csids[i])
    /\ task[i].rederived = task[i].real
    /\ derived_data_type \in SupportedKinds =>
          task[i].checked = ExpectedKeys(derived_data_type, csids[i])

C2_SuccessOnlyIfAllValidated ==
    /\ result = Ok =>
          /\ pc = "done"
          /\ readonly_storage
          /\ offset = Len(csids)
          /\ chunks_passed = NumChunks
          /\ \A i \in 1..Len(csids) : CommitValidated(i)
    /\ result.type \notin {"none", "ok"} =>
          /\ pc = "done"
          /\ repo_opened => chunks_passed < NumChunks
    /\ offset = Min(chunks_passed * validate_chunk_size, Len(csids))
    /\ \A i \in 1..offset : CommitValidated(i)
    /\ Running =>
          \A i \in ChunkPositions(offset) :
             /\ Passed(i, "is_derived") =>
                   IsDerived(ReadOnlyRepo, derived_data_type, csids[i])
             /\ task[i].rederived # NoneVal =>
                   task[i].rederived =
                      FetchDerived(ReadOnlyRepo, derived_data_type, csids[i])
             /\ task[i].pc = "done" =>
                   \A k \in task[i].checked : k \in DOMAIN memblobstore.cache

C2_Witness ==
    /\ result = Ok
    /\ Len(csids) = 2
    /\ validate_chunk_size = 1
    /\ derived_data_type = HGCHANGESETS

(***************************************************************************)
(* C3: for a commit whose real and overlay derivations yield unequal       *)
(* values the run fails with a mismatch error that names the commit and    *)
(* both values, and no blob-presence verification runs for that commit.    *)
(***************************************************************************)
C3_MismatchIsFatalAndNamed ==
    /\ \A i \in 1..Len(csids) :
          ( /\ task[i].real # NoneVal
            /\ task[i].rederived # NoneVal
            /\ task[i].real # task[i].rederived )
          => /\ result = Err("mismatch", csids[i], NoneVal,
                             task[i].real, task[i].rederived)
             /\ pc = "done"
             /\ task[i].pc = "derive"
             /\ task[i].checked = {}
             /\ task[i].mf_entries = {}
    /\ result.type = "mismatch" =>
          \E i \in ChunkPositions(offset) :
             /\ result.csid = csids[i]
             /\ result.real = FetchDerived(OrigRepo, derived_data_type, csids[i])
             /\ result.rederived =
                   FetchDerived(ReadOnlyRepo, derived_data_type, csids[i])
             /\ result.real # result.rederived

C3_Witness ==
    /\ result.type = "mismatch"
    /\ result.csid = 4
    /\ result.real = <<"root", "R4">>
    /\ result.rederived = WrongHandle(derived_data_type, 4)

(***************************************************************************)
(* C4: when a blob key the manifest diff requires is absent from the       *)
(* overlay, the fatal error identifies the blob key and the commit being   *)
(* validated.                                                              *)
(***************************************************************************)
C4_MissingBlobNamesKeyAndCommit ==
    result.type = "not_found" =>
        /\ result.key # NoneVal
        /\ \E i \in 1..Len(csids) : result.csid = csids[i]

(***************************************************************************)
(* C5: once fallback is disabled on the overlay store, get of a key never  *)
(* put into this overlay is "not found" even though the durable store      *)
(* holds it; so a blob-presence check that succeeded proves the key was    *)
(* written in this chunk's run.                                            *)
(***************************************************************************)
C5_NoFallbackAfterLockDown ==
    /\ (memblobstore # NoOverlay /\ memblobstore.no_access_to_inner) =>
          \A k \in DOMAIN inner_blobstore \ DOMAIN memblobstore.cache :
             /\ RepoBlobGet(ReadOnlyRepo, k) = NoneVal
             /\ CheckExists(ReadOnlyRepo, k) = Err("not_found", NoCs, k, NoneVal, NoneVal)
    /\ Running => memblobstore.no_access_to_inner
    /\ memblobstore # NoOverlay =>
          \A i \in ChunkPositions(offset) : \A k \in task[i].checked :
             k \notin DOMAIN memblobstore.cache =>
                /\ task[i].pc # "done"
                /\ result = Err("not_found", NoCs, k, NoneVal, NoneVal)

C5_Witness ==
    /\ Running
    /\ memblobstore.no_access_to_inner
    /\ \E i \in ChunkPositions(offset) :
          /\ task[i].pc = "done"
          /\ task[i].checked # {}
    /\ \E k \in DOMAIN inner_blobstore : k \notin DOMAIN memblobstore.cache

(***************************************************************************)
(* C6: across every operation of a run the durable blobstore and the       *)
(* durable mapping keep their contents; what is written through the        *)
(* overlay is in the in-memory log only.                                   *)
(***************************************************************************)
C6_DurableStoresUnchanged ==
    /\ InitStores
    /\ [][/\ inner_blobstore' = inner_blobstore
          /\ inner_bonsai_hg_mapping' = inner_bonsai_hg_mapping]_vars

C6_Witness ==
    /\ Running
    /\ derived_data_type = HGCHANGESETS
    /\ DOMAIN memblobstore.cache # {}
    /\ \E c \in DOMAIN membonsaihgmapping.cache :
          membonsaihgmapping.cache[c] # inner_bonsai_hg_mapping[c]

(***************************************************************************)
(* C7: for a commit with no parents the diff engine yields every entry     *)
(* (Tree and Leaf) reachable from the commit's root tree, so every such    *)
(* entry that projects to a key is checked in the overlay.                 *)
(***************************************************************************)
ReachableEntryPairs(root) ==
    {<<p, EntryAt(root, p)>> : p \in {q \in Paths : EntryAt(root, q) # NoEntry}}

C7_RootCommitYieldsEveryEntry ==
    \A i \in 1..Len(csids) :
       LET c == csids[i]
           reachable == ReachableEntryPairs(RootOf(c))
       IN  cs_parents[c] = <<>> =>
           /\ FindIntersectionOfDiffs(RootOf(c), <<>>) = reachable
           /\ (task[i].pc = "done" /\ derived_data_type \in SupportedKinds) =>
                 /\ task[i].mf_entries = {pe[2] : pe \in reachable}
                 /\ \A pe \in reachable :
                       MaybeKey(derived_data_type, pe[2]) # NoneVal =>
                          MaybeKey(derived_data_type, pe[2]) \in task[i].checked

C7_Witness ==
    /\ derived_data_type = UNODES
    /\ csids = <<4>>
    /\ cs_parents[4] = <<>>
    /\ root_mf[4] = "R3"
    /\ task[1].pc = "done"
    /\ task[1].checked =
          {TreeKey("R3"), TreeKey("S2"), LeafKey("f1"), LeafKey("f2")}

(***************************************************************************)
(* C8: for a commit with exactly one parent the diff engine yields exactly *)
(* the entries of the commit's tree whose id differs from the parent's     *)
(* entry at the same path (paths absent in the parent included), and it    *)
(* descends only into subtrees whose ids differ: nothing under a subtree   *)
(* equal to the parent's is yielded.                                       *)
(***************************************************************************)
C8_OneParentYieldsExactlyTheChanged ==
    \A i \in 1..Len(csids) :
       LET c == csids[i]
           root == RootOf(c)
           proots == ParentRootsOf(c)
           yielded == FindIntersectionOfDiffs(root, proots)
       IN  Len(cs_parents[c]) = 1 =>
           /\ yielded = NewEntryPairs(root, proots)
           /\ \A pe \in yielded : \A n \in 0..(Len(pe[1]) - 1) :
                 EntryAt(root, SubSeq(pe[1], 1, n))
                    # EntryAt(proots[1], SubSeq(pe[1], 1, n))
           /\ (task[i].pc = "done" /\ derived_data_type \in SupportedKinds) =>
                 /\ task[i].mf_entries = {pe[2] : pe \in NewEntryPairs(root, proots)}
                 /\ task[i].checked = ExpectedKeys(derived_data_type, c)

C8_Witness ==
    /\ derived_data_type = UNODES
    /\ \E i \in 1..Len(csids) :
          /\ csids[i] = 2
          /\ cs_parents[2] = <<1>>
          /\ root_mf[1] = "R1"
          /\ root_mf[2] = "R2"
          /\ task[i].pc = "done"
          /\ task[i].mf_entries = {Tree("R2"), Leaf("f2")}
          /\ TreeKey("S1") \notin task[i].checked

(***************************************************************************)
(* C9: for a merge commit an entry whose id equals the entry at the same   *)
(* path in at least one parent is not yielded, and so is not checked for   *)
(* presence, even if it differs from every other parent.                   *)
(***************************************************************************)
C9_MergeExcludesWhatAnyParentHas ==
    \A i \in 1..Len(csids) :
       LET c == csids[i]
           root == RootOf(c)
           proots == ParentRootsOf(c)
           yielded == FindIntersectionOfDiffs(root, proots)
       IN  Len(cs_parents[c]) >= 2 =>
           /\ \A p \in Paths :
                 ( /\ EntryAt(root, p) # NoEntry
                   /\ \E j \in DOMAIN proots : EntryAt(proots[j], p) = EntryAt(root, p) )
                 => <<p, EntryAt(root, p)>> \notin yielded
           /\ (task[i].pc = "done" /\ derived_data_type \in SupportedKinds) =>
                 /\ task[i].mf_entries \subseteq
                       {pe[2] : pe \in NewEntryPairs(root, proots)}
                 /\ task[i].checked \subseteq ExpectedKeys(derived_data_type, c)

C9_Witness ==
    /\ Running
    /\ derived_data_type = UNODES
    /\ \E i \in 1..Len(csids) :
          /\ csids[i] = 4
          /\ cs_parents[4] = <<2, 3>>
          /\ EntryAt(root_mf[4], <<"a">>) = EntryAt(root_mf[2], <<"a">>)
          /\ EntryAt(root_mf[4], <<"a">>) # EntryAt(root_mf[3], <<"a">>)
          /\ task[i].pc = "done"
          /\ task[i].checked = {TreeKey("R4")}
          /\ LeafKey("f2") \notin DOMAIN memblobstore.cache

(***************************************************************************)
(* C10: for a kind that is none of the four supported ones blob-presence   *)
(* verification is skipped with a warning and never yields an error, while *)
(* the is-derived check and the equality of the real and the overlay value *)
(* are still enforced and still fail the run.                              *)
(***************************************************************************)
C10_UnsupportedKindOnlySkipsBlobCheck ==
    derived_data_type \notin SupportedKinds =>
       /\ result.type \in {"none", "ok", "not_readonly", "upstream",
                           "not_derived", "mismatch"}
       /\ \A i \in 1..Len(csids) :
             /\ task[i].checked = {}
             /\ task[i].mf_entries = {}
             /\ task[i].warned <=> task[i].pc = "done"
             /\ Passed(i, "derive") =>
                   /\ task[i].real = Handle(derived_data_type, csids[i])
                   /\ task[i].rederived = task[i].real
             /\ (/\ task[i].real # NoneVal
                 /\ task[i].rederived # NoneVal
                 /\ task[i].real # task[i].rederived) => result.type = "mismatch"
       /\ memblobstore # NoOverlay =>
             \A i \in ChunkPositions(offset) :
                /\ Passed(i, "is_derived") =>
                      IsDerived(ReadOnlyRepo, derived_data_type, csids[i])
                /\ (/\ task[i].pc = "is_derived"
                    /\ pc = "done"
                    /\ ~IsDerived(ReadOnlyRepo, derived_data_type, csids[i]))
                   => result.type \in {"not_derived", "mismatch", "upstream"}
       /\ result = Ok => \A i \in 1..Len(csids) : task[i].pc = "done"

C10_Witness ==
    /\ derived_data_type = BLAME
    /\ result = Ok
    /\ Len(csids) = 2
    /\ \A i \in 1..Len(csids) : task[i].warned /\ task[i].checked = {}

(***************************************************************************)
(* C11: chunks are processed one after another in list order: the cycle of *)
(* chunk k+1 starts only after the cycle of chunk k has completed with     *)
(* success, and once a chunk has failed no later chunk is started: no      *)
(* overlay is built and no derivation is invoked for it.                   *)
(***************************************************************************)
InCycle == pc \in {"regenerate", "cache_len", "lockdown", "verify"}

FailedInChunk ==
    pc = "done" /\ repo_opened /\ result.type \notin {"ok", "not_readonly"}

C11_ChunksStrictlySequential ==
    /\ overlays_built = chunks_passed + (IF InCycle \/ FailedInChunk THEN 1 ELSE 0)
    /\ regenerate_calls = overlays_built - (IF pc = "regenerate" THEN 1 ELSE 0)
    /\ offset = Min(chunks_passed * validate_chunk_size, Len(csids))
    /\ \A i \in 1..offset : task[i].pc = "done"
    /\ \A i \in 1..Len(csids) :
          i \notin 1..offset /\ i \notin ChunkPositions(offset) => task[i] = NewTask
    /\ ~(InCycle \/ FailedInChunk) => \A i \in (offset + 1)..Len(csids) : task[i] = NewTask
    /\ FailedInChunk =>
          /\ chunks_passed < NumChunks
          /\ \E i \in ChunkPositions(offset) : task[i].pc # "done"

C11_Witness ==
    /\ FailedInChunk
    /\ Len(csids) = 2
    /\ validate_chunk_size = 1
    /\ chunks_passed = 0
    /\ overlays_built = 1
    /\ regenerate_calls = 1
    /\ task[2] = NewTask

(***************************************************************************)
(* C12: within a chunk, once a per-commit task has returned a fatal error  *)
(* no further task of the chunk is started, the tasks still in flight are  *)
(* cancelled (they take no further step), and the error is the result of   *)
(* the chunk and of the run.                                               *)
(***************************************************************************)
C12_Step ==
    /\ result = NoResult
    /\ task' # task => pc = "verify"
    /\ (pc = "verify" /\ result' # NoResult) =>
          /\ pc' = "done"
          /\ result'.type \notin {"ok", "none"}
          /\ chunks_passed' = chunks_passed
          /\ offset' = offset
          /\ \E i \in ChunkPositions(offset) :
                /\ task[i].pc \in {"is_derived", "derive", "validate"}
                /\ task'[i].pc = task[i].pc
                /\ \A j \in 1..Len(csids) : j # i => task'[j] = task[j]

C12_FirstErrorCancelsTheRest == [][C12_Step]_vars

C12_Witness ==
    /\ pc = "done"
    /\ result.type = "mismatch"
    /\ \E i, j \in ChunkPositions(offset) :
          /\ i # j
          /\ result.csid = csids[i]
          /\ task[j].pc \in {"is_derived", "derive", "validate"}

(***************************************************************************)
(* C13: in every state of the verifying phase at most 100 per-commit       *)
(* validation tasks of the current chunk are in flight.                    *)
(***************************************************************************)
C13_AtMostHundredInFlight ==
    /\ Cardinality(InFlight) <= 100
    /\ \A i \in 1..Len(csids) :
          task[i].pc \notin {"idle", "done"} => i \in ChunkPositions(offset)

C13_Witness ==
    /\ Running
    /\ Cardinality(ChunkPositions(offset)) > 100
    /\ Cardinality(InFlight) = 100
    /\ \E i \in ChunkPositions(offset) : task[i].pc = "idle"

(***************************************************************************)
(* C14: if the overlay-only view of the derivation framework does not      *)
(* report a commit of the chunk as derived after the re-derivation, the    *)
(* run fails with a fatal error for that commit, and neither the equality  *)
(* comparison nor the blob-presence verification is performed for it.      *)
(***************************************************************************)
NothingDoneFor(i) ==
    /\ task[i].pc \in {"idle", "is_derived"}
    /\ task[i].real = NoneVal
    /\ task[i].rederived = NoneVal
    /\ task[i].checked = {}
    /\ task[i].mf_entries = {}

C14_NotDerivedIsFatal ==
    /\ result.type = "not_derived" =>
          /\ pc = "done"
          /\ \E i \in ChunkPositions(offset) :
                /\ result = Err("not_derived", csids[i], NoneVal, NoneVal, NoneVal)
                /\ task[i].pc = "is_derived"
                /\ ~IsDerived(ReadOnlyRepo, derived_data_type, csids[i])
    /\ (memblobstore # NoOverlay /\ memblobstore.no_access_to_inner) =>
          \A i \in ChunkPositions(offset) :
             ~IsDerived(ReadOnlyRepo, derived_data_type, csids[i]) =>
                /\ NothingDoneFor(i)
                /\ result.type # "ok"
                /\ result.type = "mismatch" => result.csid # csids[i]
                /\ chunks_passed < NumChunks

C14_Witness ==
    /\ result.type = "not_derived"
    /\ ~regenerate_skips_derived
    /\ Len(csids) = 2
    /\ validate_chunk_size = 2
    /\ result.csid = csids[2]
    /\ task[1].pc = "done"
    /\ NothingDoneFor(2)

(***************************************************************************)
(* C15: the projection to blob keys follows the kind: for fsnodes and      *)
(* skeleton manifests every yielded Tree entry is checked in the overlay   *)
(* and no Leaf entry ever is, so a missing leaf blob cannot fail the       *)
(* validation; for unodes every yielded Tree entry and every yielded Leaf  *)
(* entry is checked.                                                       *)
(***************************************************************************)
TreeKeysOf(entries) == {TreeKey(e.id) : e \in {x \in entries : x.type = "Tree"}}
LeafKeysOf(entries) == {LeafKey(e.id) : e \in {x \in entries : x.type = "Leaf"}}

C15_ProjectionFollowsKindPolicy ==
    /\ derived_data_type \in {FSNODES, SKELETON_MANIFESTS} =>
          /\ \A i \in 1..Len(csids) :
                /\ \A k \in task[i].checked : k[1] = "tree"
                /\ task[i].pc = "done" =>
                      task[i].checked = TreeKeysOf(task[i].mf_entries)
          /\ result.type = "not_found" => result.key[1] = "tree"
    /\ derived_data_type = UNODES =>
          \A i \in 1..Len(csids) :
             task[i].pc = "done" =>
                task[i].checked = TreeKeysOf(task[i].mf_entries)
                                     \cup LeafKeysOf(task[i].mf_entries)

C15_Witness ==
    /\ Running
    /\ derived_data_type = FSNODES
    /\ \E i \in ChunkPositions(offset) :
          /\ task[i].pc = "done"
          /\ task[i].checked # {}
          /\ \E e \in task[i].mf_entries :
                /\ e.type = "Leaf"
                /\ LeafKey(e.id) \notin DOMAIN memblobstore.cache

(***************************************************************************)
(* C16: for hgchangesets the validation of a commit succeeds only if the   *)
(* blob of the mapped hg changeset itself is in the overlay, besides the   *)
(* key of every yielded manifest node and file node; the absence of the    *)
(* changeset blob alone is a fatal error.                                  *)
(***************************************************************************)
CsKeyOf(c) == HgChangesetKey(Handle(HGCHANGESETS, c))

C16_HgChangesetBlobRequired ==
    derived_data_type = HGCHANGESETS =>
       /\ \A i \in 1..Len(csids) :
             task[i].pc = "done" =>
                /\ CsKeyOf(csids[i]) \in task[i].checked
                /\ task[i].checked =
                      {CsKeyOf(csids[i])}
                         \cup TreeKeysOf(task[i].mf_entries)
                         \cup LeafKeysOf(task[i].mf_entries)
                /\ task[i].mf_entries =
                      {pe[2] : pe \in NewEntryPairs(RootOf(csids[i]),
                                                    ParentRootsOf(csids[i]))}
       /\ memblobstore # NoOverlay =>
             \A i \in ChunkPositions(offset) :
                /\ task[i].pc = "done" =>
                      task[i].checked \subseteq DOMAIN memblobstore.cache
                /\ CsKeyOf(csids[i]) \notin DOMAIN memblobstore.cache =>
                      task[i].pc # "done"
       /\ (result.type = "not_found" /\ result.key[1] = "hgchangeset") =>
             /\ pc = "done"
             /\ result.key \notin DOMAIN memblobstore.cache
             /\ \E i \in ChunkPositions(offset) :
                   /\ result.key = CsKeyOf(csids[i])
                   /\ task[i].pc = "validate"

C16_Witness ==
    /\ derived_data_type = HGCHANGESETS
    /\ result.type = "not_found"
    /\ \E i \in ChunkPositions(offset) :
          /\ result.key = CsKeyOf(csids[i])
          /\ task[i].pc = "validate"
          /\ (ExpectedKeys(HGCHANGESETS, csids[i]) \ {CsKeyOf(csids[i])}) # {}
          /\ (ExpectedKeys(HGCHANGESETS, csids[i]) \ {CsKeyOf(csids[i])})
                \subseteq DOMAIN memblobstore.cache

(***************************************************************************)
(* C17: get(key) on the overlay store returns the logged value when the    *)
(* key is in the in-memory write log; otherwise, with fallback enabled, it *)
(* returns what the backend returns and does not add the key to the write  *)
(* log; otherwise it returns "not found".                                  *)
(***************************************************************************)
AbsentKey == <<"tree", "absent">>

ProbedKeys == DOMAIN inner_blobstore \cup DOMAIN memblobstore.cache \cup {AbsentKey}

\* the keys the re-derivation of the current chunk may have put
PutKeys ==
    UNION {DerivationBlobs(derived_data_type, csids[i]) : i \in ChunkPositions(offset)}
    \cup {DerivedKey(csids[i]) : i \in ChunkPositions(offset)}

GetFollowsTheLog ==
    /\ \A k \in ProbedKeys :
          /\ k \in DOMAIN memblobstore.cache =>
                MemWritesGet(memblobstore, inner_blobstore, k)
                   = memblobstore.cache[k]
          /\ (k \notin DOMAIN memblobstore.cache
                 /\ ~memblobstore.no_access_to_inner) =>
                MemWritesGet(memblobstore, inner_blobstore, k)
                   = (IF k \in DOMAIN inner_blobstore
                      THEN inner_blobstore[k] ELSE NoneVal)
          /\ (k \notin DOMAIN memblobstore.cache
                 /\ memblobstore.no_access_to_inner) =>
                MemWritesGet(memblobstore, inner_blobstore, k) = NoneVal
    /\ \A k \in RegenerateReads(derived_data_type, ChunkPositions(offset))
                 \cup {AbsentKey} :
          MemWritesGetLog(memblobstore, inner_blobstore, k)
             = memblobstore.cache
    /\ LET put == PutKeys
       IN  \A k \in DOMAIN memblobstore.cache : k \in put

\* every state of the overlay store a step produces answers get this way
C17_OverlayGet ==
    [][(memblobstore' # memblobstore /\ memblobstore' # NoOverlay) =>
          GetFollowsTheLog']_vars

C17_Witness ==
    /\ pc = "lockdown"
    /\ ~memblobstore.no_access_to_inner
    /\ DOMAIN memblobstore.cache # {}
    /\ \E k \in RegenerateReads(derived_data_type, ChunkPositions(offset)) :
          /\ k \in DOMAIN inner_blobstore
          /\ k \notin DOMAIN memblobstore.cache
          /\ MemWritesGet(memblobstore, inner_blobstore, k) = inner_blobstore[k]

(***************************************************************************)
(* C18: deriving a commit a second time through the same overlay yields    *)
(* the value the first derivation recorded and leaves the key set and the  *)
(* key count of the overlay write log as they were; repeating an identical *)
(* put leaves the write log unchanged too.                                 *)
(***************************************************************************)
\* the value the re-derivation of the chunk recorded for the commit at i
RecordedValue(i) ==
    IF derived_data_type = HGCHANGESETS
    THEN Lookup(membonsaihgmapping.cache, csids[i])
    ELSE Lookup(memblobstore.cache, DerivedKey(csids[i]))

C18_State ==
    memblobstore # NoOverlay =>
       /\ \A i \in ChunkPositions(offset) :
             task[i].rederived # NoneVal =>
                task[i].rederived = RecordedValue(i)
       /\ MemWritesPutAll(memblobstore, memblobstore.cache) = memblobstore
       /\ \A k \in DOMAIN memblobstore.cache :
             LET again == MemWritesPutAll(memblobstore,
                              [x \in {k} |-> memblobstore.cache[k]])
             IN  /\ again = memblobstore
                 /\ Cardinality(DOMAIN again.cache)
                       = Cardinality(DOMAIN memblobstore.cache)

C18_Step ==
    (\E i \in 1..Len(csids) : task'[i].rederived # task[i].rederived) =>
       /\ memblobstore' = memblobstore
       /\ membonsaihgmapping' = membonsaihgmapping
       /\ DOMAIN memblobstore'.cache = DOMAIN memblobstore.cache
       /\ Cardinality(DOMAIN memblobstore'.cache)
             = Cardinality(DOMAIN memblobstore.cache)

C18_SecondDerivationIdempotent == []C18_State /\ [][C18_Step]_vars

C18_Witness ==
    /\ Running
    /\ Len(csids) = 2
    /\ validate_chunk_size = 2
    /\ DOMAIN memblobstore.cache # {}
    /\ \A i \in ChunkPositions(offset) :
          /\ task[i].rederived = Handle(derived_data_type, csids[i])
          /\ task[i].rederived = RecordedValue(i)

(***************************************************************************)
(* C19: an error a collaborator call returns (store get, mapping lookup,   *)
(* parent fetch, derive, is_derived, manifest load) is propagated          *)
(* unchanged as a fatal error of the current chunk and of the run; the     *)
(* call is not retried and the run never goes on to success after it.      *)
(***************************************************************************)
UpstreamCalls ==
    {"open_repo_unredacted", "regenerate_derived_data", "derived_data_utils",
     "is_derived", "derive", "get_parents", "fetch_derived", "load", "get"}

C19_State ==
    /\ result.type \in {"none", "ok", "not_readonly", "not_derived",
                        "mismatch", "not_found", "upstream"}
    /\ result.type = "upstream" =>
          /\ pc = "done"
          /\ \E call \in UpstreamCalls : result = UpstreamError(call)
          /\ chunks_passed < NumChunks \/ ~repo_opened
          /\ result.key[2] \in {"is_derived", "derive", "get_parents",
                                "fetch_derived", "load", "get"} =>
                \E i \in ChunkPositions(offset) :
                   task[i].pc \in {"is_derived", "derive", "validate"}

C19_Step ==
    /\ result.type # "upstream"
    /\ result'.type = "upstream" =>
          /\ result = NoResult
          /\ pc' = "done"
          /\ task' = task
          /\ offset' = offset
          /\ chunks_passed' = chunks_passed
          /\ overlays_built' = overlays_built
          /\ memblobstore' = memblobstore
          /\ membonsaihgmapping' = membonsaihgmapping

C19_UpstreamErrorPropagated == []C19_State /\ [][C19_Step]_vars

C19_Witness ==
    /\ result = UpstreamError("load")
    /\ Len(csids) = 2
    /\ validate_chunk_size = 1
    /\ chunks_passed = 1
    /\ task[1].pc = "done"
    /\ task[2].pc = "validate"

(***************************************************************************)
(* C20: no false negatives: once the re-derivation of a chunk through the  *)
(* overlay has completed, for every commit of the chunk and every entry in *)
(* the commit's intersection of diffs the blob key the kind's projection   *)
(* produces is in the overlay write log, so a run over correctly derived   *)
(* commits never reports a missing blob.                                   *)
(***************************************************************************)
\* the re-derivation of the current chunk is over and did what a correct
\* derivation does: every commit is mapped to its value, every blob written
CorrectlyRederived ==
    /\ memblobstore # NoOverlay
    /\ pc \in {"cache_len", "lockdown", "verify", "done"}
    /\ result.type # "upstream" \/ result.key[2] # "regenerate_derived_data"
    /\ \A i \in ChunkPositions(offset) :
          /\ RecordedValue(i) = Handle(derived_data_type, csids[i])
          /\ DerivationBlobs(derived_data_type, csids[i])
                \subseteq DOMAIN memblobstore.cache

\* the keys the projection of derived_data_type produces for the entries in
\* the intersection of diffs of the commit at i
ProjectedKeys(i) ==
    {MaybeKey(derived_data_type, pe[2]) :
        pe \in FindIntersectionOfDiffs(RootOf(csids[i]), ParentRootsOf(csids[i]))}
       \ {NoneVal}

C20_NoFalseNegatives ==
    (CorrectlyRederived /\ derived_data_type \in SupportedKinds) =>
       /\ \A i \in ChunkPositions(offset) :
             /\ ProjectedKeys(i) \subseteq DOMAIN memblobstore.cache
             /\ task[i].checked \subseteq DOMAIN memblobstore.cache
             /\ memblobstore.no_access_to_inner =>
                   \A o \in ValidateGeneratedData(OrigRepo, derived_data_type,
                                                  csids[i], ReadOnlyRepo) :
                      o.result = Ok
       /\ result.type \notin {"not_found", "not_derived", "mismatch"}

C20_Witness ==
    /\ CorrectlyRederived
    /\ Running
    /\ derived_data_type = UNODES
    /\ csids[1] = 1
    /\ task[1].pc = "done"
    /\ ProjectedKeys(1) =
          {TreeKey("R1"), TreeKey("S1"), LeafKey("f1")}
    /\ task[1].checked = ProjectedKeys(1)


(***************************************************************************)
(* Properties of the config reader.                                        *)
(***************************************************************************)
ReaderDone == reader_pc = "done"

\* the places of the separator in a pushvar string
Separators(s) == {i \in DOMAIN s : s[i] = "="}

BothBypasses(h) == IsSome(h.bypass_commit_string) /\ IsSome(h.bypass_pushvar)
MalformedPushvar(h) ==
    /\ IsSome(h.bypass_pushvar)
    /\ Cardinality(Separators(Unwrap(h.bypass_pushvar))) # 1

\* the one bypass a hook with at most one well-formed bypass declares
DeclaredBypass(h) ==
    IF IsSome(h.bypass_commit_string)
    THEN Some(CommitMessage(Unwrap(h.bypass_commit_string)))
    ELSE IF IsSome(h.bypass_pushvar)
    THEN LET s == Unwrap(h.bypass_pushvar)
             k == CHOOSE i \in Separators(s) : TRUE
         IN  Some(Pushvar(SubSeq(s, 1, k - 1), SubSeq(s, k + 1, Len(s))))
    ELSE NoneVal

\* C21: once read_configs has returned, it has returned an error if some
\* hook declares both a commit-message bypass and a pushvar bypass, or a
\* pushvar bypass that does not split on '=' into exactly two parts; and
\* every hook that was loaded declares at most one well-formed bypass and
\* has exactly that bypass (or none) in its HookParams.
C21_BrokenBypassRejected ==
    /\ (ReaderDone /\ \E i \in DOMAIN hooks :
                         BothBypasses(hooks[i]) \/ MalformedPushvar(hooks[i]))
          => IsErr(configs)
    /\ \A i \in DOMAIN all_hook_params :
          /\ ~BothBypasses(hooks[i])
          /\ ~MalformedPushvar(hooks[i])
          /\ all_hook_params[i].bypass = DeclaredBypass(hooks[i])

\* a hook with both bypasses, each well formed, was read and rejected
C21_Witness ==
    /\ ReaderDone
    /\ Len(hooks) >= 1
    /\ BothBypasses(hooks[1])
    /\ ~MalformedPushvar(hooks[1])
    /\ IsErr(configs)
    /\ Unwrap(configs)[1] = "Context"
    /\ Unwrap(configs)[3][1] = "TooManyBypassOptions"


HalfIdentity(e) == IsSome(e.identity_type) # IsSome(e.identity_data)
FullIdentity(e) == IsSome(e.identity_type) /\ IsSome(e.identity_data)
BrokenEntry(e) ==
    \/ HalfIdentity(e)
    \/ IsSome(e.tier) /\ FullIdentity(e)
    \/ IsNone(e.tier) /\ IsNone(e.identity_type) /\ IsNone(e.identity_data)

\* what a tier-only or identity-only entry stands for
DeclaredEntry(e) ==
    IF IsSome(e.tier) THEN Tier(Unwrap(e.tier))
    ELSE HardcodedIdentity(Unwrap(e.identity_type), Unwrap(e.identity_data))

\* C22: once read_configs has returned, it has returned an error if some
\* whitelist entry has exactly one of identity_type/identity_data, has both
\* a tier and an identity, or has neither; every entry accepted so far is
\* tier-only and a Tier, or identity-only and a HardcodedIdentity, and sits
\* at the place its raw entry has in the file; a successful read returns
\* one such entry for every entry of the file, in file order.
C22_BrokenWhitelistEntryRejected ==
    /\ (ReaderDone /\ \E i \in DOMAIN RawWhitelist : BrokenEntry(RawWhitelist[i]))
          => IsErr(configs)
    /\ IsOk(whitelisted_entries) =>
          \A i \in DOMAIN Unwrap(whitelisted_entries) :
             /\ ~BrokenEntry(RawWhitelist[i])
             /\ Unwrap(whitelisted_entries)[i] = DeclaredEntry(RawWhitelist[i])
    /\ (ReaderDone /\ IsOk(configs)) =>
          Unwrap(configs).common =
             [i \in DOMAIN RawWhitelist |-> DeclaredEntry(RawWhitelist[i])]

\* an identity entry was accepted, then an entry with both a tier and an
\* identity ended the read with an error
C22_Witness ==
    /\ ReaderDone
    /\ Len(RawWhitelist) = 2
    /\ ~BrokenEntry(RawWhitelist[1])
    /\ IsSome(RawWhitelist[2].tier) /\ FullIdentity(RawWhitelist[2])
    /\ IsErr(configs)
    /\ Unwrap(configs)[1] = "InvalidFileStructure"
    /\ Unwrap(configs)[2] = "tier and identity cannot be both specified"

TierEntries == {i \in DOMAIN RawWhitelist : IsSome(RawWhitelist[i].tier)}
OnlyOneTierError ==
    /\ IsErr(configs)
    /\ Unwrap(configs)[1] = "InvalidFileStructure"
    /\ Unwrap(configs)[2] = "only one tier is allowed"

\* C23: once read_configs has returned, it has returned an error if the
\* whitelist has more than one tier entry; with zero or one tier entry the
\* error is never the one-tier error, and the read succeeds when no entry
\* is broken and the repository loaded, however many identity entries
\* there are and wherever they stand.
C23_AtMostOneTier ==
    ReaderDone =>
       /\ Cardinality(TierEntries) > 1 => IsErr(configs)
       /\ Cardinality(TierEntries) <= 1 =>
             /\ ~OnlyOneTierError
             /\ (/\ \A i \in DOMAIN RawWhitelist : ~BrokenEntry(RawWhitelist[i])
                 /\ Len(all_hook_params) = Len(hooks)
                 /\ IsSome(path))
                   => IsOk(configs)

\* two well-formed tier entries with an identity entry between them were
\* read and rejected for the second tier
C23_Witness ==
    /\ ReaderDone
    /\ Len(RawWhitelist) = 3
    /\ \A i \in 1..3 : ~BrokenEntry(RawWhitelist[i])
    /\ TierEntries = {1, 3}
    /\ OnlyOneTierError


(***************************************************************************)
(* C24: for a commit with n >= 1 parents the entries the diff engine       *)
(* yields to the validation of the commit are exactly the entries that are *)
(* in the structural diff of the commit's tree against every one of the n  *)
(* parents' trees: the intersection of the per-parent diffs, not their     *)
(* union; only keys of such entries are looked up in the overlay.          *)
(***************************************************************************)
\* the structural diff of the commit's tree against each parent's tree
PerParentDiffs(c) ==
    [j \in DOMAIN ParentRootsOf(c) |-> DiffTrees(<<>>, RootOf(c), ParentRootsOf(c)[j])]

InEveryDiff(c) ==
    {pe \in UNION {PerParentDiffs(c)[j] : j \in DOMAIN PerParentDiffs(c)} :
        \A j \in DOMAIN PerParentDiffs(c) : pe \in PerParentDiffs(c)[j]}

InSomeDiff(c) == UNION {PerParentDiffs(c)[j] : j \in DOMAIN PerParentDiffs(c)}

C24_Step ==
    \A i \in 1..Len(csids) :
       ( /\ task[i].pc = "validate"
         /\ task'[i] # task[i]
         /\ derived_data_type \in SupportedKinds
         /\ Len(cs_parents[csids[i]]) >= 1
         \* validate_hgchangesets got as far as the diff
         /\ derived_data_type = HGCHANGESETS =>
               \/ task'[i].pc = "done"
               \/ task'[i].checked #
                     {HgChangesetKey(Handle(derived_data_type, csids[i]))} )
       => /\ \A e \in {pe[2] : pe \in InSomeDiff(csids[i])} :
                e \in task'[i].mf_entries
                   <=> \E pe \in InEveryDiff(csids[i]) : pe[2] = e
          /\ task'[i].mf_entries \subseteq {pe[2] : pe \in InSomeDiff(csids[i])}
          /\ task'[i].checked \subseteq
                {MaybeKey(derived_data_type, pe[2]) : pe \in InEveryDiff(csids[i])}
                \cup {HgChangesetKey(Handle(derived_data_type, csids[i]))}

C24_YieldedIsIntersectionOfDiffs == [][C24_Step]_vars

\* a merge whose tree differs from each parent in different entries: the
\* leaf and the subtree that are in one diff only are not yielded
C24_Witness ==
    /\ derived_data_type = FSNODES
    /\ \E i \in 1..Len(csids) :
          /\ Len(cs_parents[csids[i]]) = 2
          /\ task[i].pc = "done"
          /\ Leaf("f2") \in {pe[2] : pe \in PerParentDiffs(csids[i])[1]}
          /\ Tree("S2") \in {pe[2] : pe \in PerParentDiffs(csids[i])[2]}
          /\ InEveryDiff(csids[i]) = {<<<<>>, Tree(RootOf(csids[i]))>>}
          /\ task[i].mf_entries = {Tree(RootOf(csids[i]))}
          /\ task[i].checked = {TreeKey(RootOf(csids[i]))}


(***************************************************************************)
(* C25: in every chunk the re-derivation through the overlay has completed *)
(* and then the overlay store has lost its fallback and the overlay        *)
(* mapping has become read-only and lost its fallback before the first     *)
(* per-commit task of the chunk starts; no blob-presence check is made     *)
(* while the overlay store can fall back to the backend.                   *)
(***************************************************************************)
LockedDown ==
    /\ memblobstore # NoOverlay
    /\ memblobstore.no_access_to_inner
    /\ membonsaihgmapping.no_access_to_inner
    /\ membonsaihgmapping.readonly

ChunkUntouched == \A i \in ChunkPositions(offset) : task[i] = NewTask

C25_State ==
    /\ \A i \in 1..Len(csids) :
          task[i] # NewTask =>
             \/ i <= offset
             \/ /\ i \in ChunkPositions(offset)
                /\ pc \in {"verify", "done"}
                /\ LockedDown
                /\ regenerate_calls = chunks_passed + 1
    /\ pc \in {"regenerate", "cache_len", "lockdown"} =>
          /\ ChunkUntouched
          /\ ~memblobstore.no_access_to_inner
          /\ ~membonsaihgmapping.no_access_to_inner
          /\ ~membonsaihgmapping.readonly
    /\ pc \in {"cache_len", "lockdown"} => regenerate_calls = chunks_passed + 1

C25_Step ==
    \* the re-derivation runs before the lock-down and before any task
    /\ regenerate_calls' # regenerate_calls =>
          /\ ChunkUntouched
          /\ task' = task
          /\ ~memblobstore.no_access_to_inner
          /\ regenerate_calls = chunks_passed
    \* the flags are flipped together, after it and before any task
    /\ (memblobstore # NoOverlay /\ memblobstore' # NoOverlay
          /\ memblobstore'.no_access_to_inner # memblobstore.no_access_to_inner) =>
          /\ LockedDown'
          /\ ChunkUntouched
          /\ task' = task
          /\ regenerate_calls = chunks_passed + 1
    \* a task starts, and a blob is looked up, only behind the lock-down
    /\ task' # task =>
          /\ LockedDown
          /\ memblobstore' = memblobstore
          /\ membonsaihgmapping' = membonsaihgmapping

C25_RederiveThenLockDownThenVerify == []C25_State /\ [][C25_Step]_vars

\* in the second chunk a blob has been looked up, behind the lock-down of
\* the overlay pair built and filled for that chunk
C25_Witness ==
    /\ pc = "verify"
    /\ chunks_passed = 1
    /\ overlays_built = 2
    /\ regenerate_calls = 2
    /\ LockedDown
    /\ \E i \in ChunkPositions(offset) : task[i].checked # {}


(***************************************************************************)
(* C26.  The comparison of the real value with the overlay value of a      *)
(* commit is the step in which the second of the two derive calls of the   *)
(* commit's task completes.                                                *)
(***************************************************************************)
Compared(i) == task[i].real # NoneVal /\ task[i].rederived # NoneVal

ComparisonStep(i) ==
    /\ task[i].pc = "derive"
    /\ ~Compared(i)
    /\ task'[i].real # NoneVal
    /\ task'[i].rederived # NoneVal

LockDownStep ==
    /\ memblobstore # NoOverlay
    /\ memblobstore' # NoOverlay
    /\ \/ memblobstore'.no_access_to_inner # memblobstore.no_access_to_inner
       \/ membonsaihgmapping'.no_access_to_inner
             # membonsaihgmapping.no_access_to_inner
       \/ membonsaihgmapping'.readonly # membonsaihgmapping.readonly

WriteAndFallbackEnabled ==
    /\ memblobstore # NoOverlay
    /\ ~memblobstore.no_access_to_inner
    /\ ~membonsaihgmapping.no_access_to_inner
    /\ ~membonsaihgmapping.readonly

\* C26 as stated: the values of a chunk's commits are compared while the
\* overlays are write-enabled and fallback-enabled, and the overlays are
\* switched to read-only and fallback-disabled only after the comparison.
C26_ComparedBeforeLockDown ==
    [][ /\ \A i \in 1..Len(csids) : ComparisonStep(i) => WriteAndFallbackEnabled
        /\ LockDownStep => \A i \in ChunkPositions(offset) : Compared(i) ]_vars

\* C26 amended: the values of a chunk's commits are compared in the
\* per-commit tasks after the overlays have been switched to read-only and
\* fallback-disabled; the switch follows the chunk's re-derivation, which
\* is the only step that runs with the overlays write-enabled and
\* fallback-enabled, and precedes every comparison of the chunk.
C26_Step ==
    /\ \A i \in 1..Len(csids) :
          ComparisonStep(i) =>
             /\ i \in ChunkPositions(offset)
             /\ LockedDown
             /\ LockedDown'
             /\ regenerate_calls = chunks_passed + 1
    /\ LockDownStep =>
          /\ WriteAndFallbackEnabled
          /\ LockedDown'
          /\ regenerate_calls = chunks_passed + 1
          /\ \A i \in ChunkPositions(offset) :
                task[i].real = NoneVal /\ task[i].rederived = NoneVal
    /\ regenerate_calls' # regenerate_calls => WriteAndFallbackEnabled

C26_ComparedAfterLockDown ==
    /\ [](\A i \in ChunkPositions(offset) :
             (memblobstore # NoOverlay /\ Compared(i)) => LockedDown)
    /\ [][C26_Step]_vars

\* the two values of a commit have been compared and found equal, the
\* overlays locked down
C26_Witness ==
    /\ pc = "verify"
    /\ LockedDown
    /\ \E i \in ChunkPositions(offset) :
          /\ Compared(i)
          /\ task[i].real = task[i].rederived
          /\ task[i].pc = "validate"


(***************************************************************************)
(* C27: the overlay-side value of the comparison of a commit is read       *)
(* through the locked-down overlay (no fallback, read-only): it is the     *)
(* value the re-derivation of the commit's chunk wrote to the overlay's    *)
(* log, whatever the durable backend holds for the commit, and it is never *)
(* a value read from the backend.                                          *)
(***************************************************************************)
\* the overlay log the derived value of a commit is recorded in
DerivedLog ==
    IF derived_data_type = HGCHANGESETS THEN membonsaihgmapping.cache
    ELSE memblobstore.cache
DerivedLogKey(c) == IF derived_data_type = HGCHANGESETS THEN c ELSE DerivedKey(c)
DurableDerived(c) ==
    IF derived_data_type = HGCHANGESETS THEN Lookup(inner_bonsai_hg_mapping, c)
    ELSE Lookup(inner_blobstore, DerivedKey(c))

C27_State ==
    memblobstore # NoOverlay =>
       /\ \A i \in ChunkPositions(offset) :
             /\ task[i].rederived # NoneVal =>
                   /\ LockedDown
                   /\ DerivedLogKey(csids[i]) \in DOMAIN DerivedLog
                   /\ task[i].rederived = DerivedLog[DerivedLogKey(csids[i])]
             /\ DerivedLogKey(csids[i]) \notin DOMAIN DerivedLog =>
                   /\ task[i].rederived = NoneVal
                   /\ task[i].pc \in {"idle", "is_derived"}
       \* what the log holds for a commit was written for a commit of the chunk
       /\ \A c \in DOMAIN root_mf :
             DerivedLogKey(c) \in DOMAIN DerivedLog =>
                \E i \in ChunkPositions(offset) : csids[i] = c

C27_Step ==
    \A i \in 1..Len(csids) :
       task'[i].rederived # task[i].rederived =>
          /\ LockedDown
          /\ DerivedLogKey(csids[i]) \in DOMAIN DerivedLog
          /\ task'[i].rederived = DerivedLog[DerivedLogKey(csids[i])]
          /\ DerivedLog[DerivedLogKey(csids[i])] # DurableDerived(csids[i]) =>
                task'[i].rederived # DurableDerived(csids[i])
          /\ inner_blobstore' = inner_blobstore
          /\ inner_bonsai_hg_mapping' = inner_bonsai_hg_mapping

C27_OverlayValueFromOverlayLog == []C27_State /\ [][C27_Step]_vars

\* the re-derivation recorded a wrong value for a commit the backend holds
\* the right value of: the comparison was made with the wrong value
C27_Witness ==
    /\ pc = "done"
    /\ result.type = "mismatch"
    /\ \E i \in ChunkPositions(offset) :
          /\ result.csid = csids[i]
          /\ DurableDerived(csids[i]) = Handle(derived_data_type, csids[i])
          /\ task[i].real = Handle(derived_data_type, csids[i])
          /\ task[i].rederived = WrongHandle(derived_data_type, csids[i])
          /\ DerivedLog[DerivedLogKey(csids[i])] = task[i].rederived


(***************************************************************************)
(* C28: every chunk gets an overlay store and an overlay mapping of its    *)
(* own, built with an empty write log, fallback enabled and writes         *)
(* enabled, whatever the chunk before wrote and whichever flags it         *)
(* flipped: a log only ever holds what the re-derivation of the current    *)
(* chunk wrote, and nothing a chunk before wrote is carried over.          *)
(***************************************************************************)
\* the keys the re-derivation of the current chunk may write
ChunkBlobKeys ==
    UNION {DerivationBlobs(derived_data_type, csids[i]) \cup {DerivedKey(csids[i])} :
           i \in ChunkPositions(offset)}
ChunkCommits == {csids[i] : i \in ChunkPositions(offset)}

FreshOverlays ==
    /\ memblobstore # NoOverlay
    /\ membonsaihgmapping # NoOverlay
    /\ memblobstore.cache = EmptyStore
    /\ ~memblobstore.no_access_to_inner
    /\ membonsaihgmapping.cache = EmptyStore
    /\ ~membonsaihgmapping.no_access_to_inner
    /\ ~membonsaihgmapping.readonly

C28_State ==
    /\ pc = "regenerate" => FreshOverlays
    /\ memblobstore # NoOverlay =>
          /\ overlays_built = chunks_passed + 1
          /\ DOMAIN memblobstore.cache \subseteq ChunkBlobKeys
          /\ DOMAIN membonsaihgmapping.cache \subseteq ChunkCommits
    /\ memblobstore = NoOverlay <=> membonsaihgmapping = NoOverlay
    /\ (memblobstore = NoOverlay /\ repo_opened) => overlays_built = chunks_passed

C28_Step ==
    overlays_built' # overlays_built =>
       /\ overlays_built' = overlays_built + 1
       /\ memblobstore = NoOverlay
       /\ membonsaihgmapping = NoOverlay
       /\ FreshOverlays'
       /\ ChunkPositions(offset) # {}

C28_FreshOverlaysPerChunk == []C28_State /\ [][C28_Step]_vars

\* the second chunk is verified behind its own overlay: the derived value
\* of the first chunk's commit, written and found while the first chunk was
\* processed, is not in the log, the second chunk's is
C28_Witness ==
    /\ pc = "verify"
    /\ derived_data_type = FSNODES
    /\ validate_chunk_size = 1
    /\ chunks_passed = 1
    /\ overlays_built = 2
    /\ DerivedKey(csids[1]) \notin DOMAIN memblobstore.cache
    /\ DerivedKey(csids[2]) \in DOMAIN memblobstore.cache
    /\ task[1].rederived = Handle(derived_data_type, csids[1])


(***************************************************************************)
(* C29: in every chunk save-no-op-writes is enabled on the overlay mapping *)
(* before the re-derivation runs against the overlay, so every mapping     *)
(* insert the re-derivation makes is recorded in the overlay mapping's     *)
(* log, also one whose value is what the backend mapping already returns,  *)
(* and is found there once the fallback is disabled.                       *)
(***************************************************************************)
\* the overlay mapping after the lock-down
MappingLockedDown(mm) == [mm EXCEPT !.no_access_to_inner = TRUE, !.readonly = TRUE]

C29_State ==
    membonsaihgmapping # NoOverlay =>
       /\ membonsaihgmapping.save_noop_writes
       /\ pc = "regenerate" =>
             \A c \in ChunkCommits :
                LET noop == [x \in {c} |-> inner_bonsai_hg_mapping[c]]
                    after == MemMappingAddAll(membonsaihgmapping,
                                              inner_bonsai_hg_mapping, noop)
                IN  /\ MemMappingGet(membonsaihgmapping,
                                     inner_bonsai_hg_mapping, c) = noop[c]
                    /\ c \in DOMAIN after.cache
                    /\ MemMappingGet(MappingLockedDown(after),
                                     inner_bonsai_hg_mapping, c) = noop[c]

\* the inserts of the outcome o of a re-derivation
MappingInserts(o) ==
    LET mapped == {i \in DOMAIN o.derived : o.derived[i] # NoneVal}
    IN  [c \in {csids[i] : i \in mapped} |->
            o.derived[CHOOSE i \in mapped : csids[i] = c]]

C29_Step ==
    /\ (regenerate_calls' # regenerate_calls /\ pc' = "cache_len"
          /\ derived_data_type = HGCHANGESETS) =>
          /\ membonsaihgmapping.save_noop_writes
          /\ \E o \in RegenerateOutcomes(OverlayRepo, derived_data_type,
                                         ChunkPositions(offset)) :
                membonsaihgmapping'.cache = MappingInserts(o)
    /\ (membonsaihgmapping # NoOverlay /\ membonsaihgmapping' # NoOverlay) =>
          membonsaihgmapping'.save_noop_writes

C29_NoopWritesRecorded == []C29_State /\ [][C29_Step]_vars

\* the re-derivation inserted for both commits of a chunk the ids the
\* backend mapping already holds: both are in the log and are found there
\* behind the lock-down
C29_Witness ==
    /\ pc = "verify"
    /\ derived_data_type = HGCHANGESETS
    /\ Cardinality(ChunkCommits) = 2
    /\ \A c \in ChunkCommits :
          /\ c \in DOMAIN membonsaihgmapping.cache
          /\ membonsaihgmapping.cache[c] = inner_bonsai_hg_mapping[c]
    /\ membonsaihgmapping.no_access_to_inner
    /\ \A i \in ChunkPositions(offset) : task[i].pc = "done"


(***************************************************************************)
(* C30: the two derivations of a commit, against the real view and against *)
(* the overlay view, are started together and complete in either order;    *)
(* the two values are compared only when both derivations have succeeded;  *)
(* if one of them fails the task fails with that error and nothing is      *)
(* compared.                                                               *)
(***************************************************************************)
DeriveFailed == result = UpstreamError("derive")

C30_State ==
    /\ \A i \in 1..Len(csids) :
          \* past the comparison: both values were there and equal
          /\ task[i].pc \in {"validate", "done"} =>
                Compared(i) /\ task[i].real = task[i].rederived
          \* before the derivations: neither value
          /\ task[i].pc \in {"idle", "is_derived"} =>
                task[i].real = NoneVal /\ task[i].rederived = NoneVal
          \* both values there and the task still deriving: they differed
          /\ (task[i].pc = "derive" /\ Compared(i)) =>
                /\ result = Err("mismatch", csids[i], NoneVal,
                                task[i].real, task[i].rederived)
                /\ task[i].real # task[i].rederived
    /\ result.type = "mismatch" =>
          \E i \in ChunkPositions(offset) :
             /\ result.csid = csids[i]
             /\ Compared(i)
             /\ task[i].real # task[i].rederived
    /\ DeriveFailed =>
          \E i \in ChunkPositions(offset) :
             task[i].pc = "derive" /\ ~Compared(i)

C30_Step ==
    /\ \A i \in 1..Len(csids) :
          \* both derivations are pending together once the task derives
          /\ (task[i].pc # "derive" /\ task'[i].pc = "derive") =>
                task'[i].real = NoneVal /\ task'[i].rederived = NoneVal
          \* a derivation that completes first compares nothing
          /\ (task'[i] # task[i] /\ task[i].pc = "derive" /\ ~Compared(i)'
                /\ task[i].real = NoneVal /\ task[i].rederived = NoneVal) =>
                /\ task'[i].pc = "derive"
                /\ result' = result
          \* the one that completes second compares
          /\ ComparisonStep(i) =>
                /\ (task[i].real # NoneVal) # (task[i].rederived # NoneVal)
                /\ IF task'[i].real = task'[i].rederived
                   THEN task'[i].pc = "validate" /\ result' = result
                   ELSE result'.type = "mismatch" /\ task'[i].pc = "derive"
    \* a failing derivation ends the run with its error, nothing compared
    /\ (result = NoResult /\ DeriveFailed') =>
          /\ task' = task
          /\ pc' = "done"
          /\ \E i \in ChunkPositions(offset) :
                task[i].pc = "derive" /\ ~Compared(i)

C30_CompareOnlyAfterBothDerived == []C30_State /\ [][C30_Step]_vars

\* the overlay-view derivation of a commit completed first, then the
\* real-view derivation failed: the run ended with that error, no comparison
C30_Witness ==
    /\ pc = "done"
    /\ DeriveFailed
    /\ \E i \in ChunkPositions(offset) :
          /\ task[i].pc = "derive"
          /\ task[i].rederived = Handle(derived_data_type, csids[i])
          /\ task[i].real = NoneVal


(***************************************************************************)
(* C31: the flags of an overlay pair are monotonic for as long as the pair *)
(* lives: once the store or the mapping has lost its fallback to the       *)
(* backend, or the mapping has become read-only, that flag is never        *)
(* switched back; each of the three flags is flipped exactly once per      *)
(* chunk: a pair is built with the three flags off, the only step that     *)
(* changes a flag turns all three on, after the chunk's re-derivation and  *)
(* before its verification, and no chunk is verified or passed with a flag *)
(* still off.                                                              *)
(***************************************************************************)
\* the steps between which the same overlay pair is alive
SameOverlays ==
    /\ memblobstore # NoOverlay
    /\ memblobstore' # NoOverlay
    /\ overlays_built' = overlays_built

C31_State ==
    /\ pc \in {"regenerate", "cache_len", "lockdown"} => WriteAndFallbackEnabled
    /\ pc = "verify" => LockedDown
    /\ memblobstore # NoOverlay => WriteAndFallbackEnabled \/ LockedDown

C31_Step ==
    /\ SameOverlays =>
          /\ memblobstore.no_access_to_inner => memblobstore'.no_access_to_inner
          /\ membonsaihgmapping.no_access_to_inner
                => membonsaihgmapping'.no_access_to_inner
          /\ membonsaihgmapping.readonly => membonsaihgmapping'.readonly
    /\ LockDownStep =>
          /\ SameOverlays
          /\ WriteAndFallbackEnabled
          /\ LockedDown'
          /\ pc = "lockdown"
          /\ pc' = "verify"
    /\ overlays_built' # overlays_built => WriteAndFallbackEnabled'
    /\ chunks_passed' # chunks_passed => LockedDown

ProbedBlobPuts ==
    {[k \in {DerivedKey(c)} |-> WrongHandle(derived_data_type, c)] :
        c \in ChunkCommits}
    \cup {[k \in {AbsentKey} |-> BlobBytes]}

ProbedMappingInserts ==
    {[k \in {c} |-> WrongHandle(HGCHANGESETS, c)] : c \in ChunkCommits}

C32_State ==
    pc = "verify" =>
       /\ \A kvs \in ProbedBlobPuts :
             RepoBlobPutLog(ReadOnlyRepo, kvs) = memblobstore.cache
       /\ \A kvs \in ProbedMappingInserts :
             RepoMappingAddLog(ReadOnlyRepo, kvs) = membonsaihgmapping.cache

C32_Step ==
    (SameOverlays /\ pc # "regenerate") =>
       /\ memblobstore'.cache = memblobstore.cache
       /\ membonsaihgmapping'.cache = membonsaihgmapping.cache

C32_LogsFrozenWhileVerifying == []C32_State /\ [][C32_Step]_vars

\* a task of a locked-down chunk is done, the store's log and the
\* mapping's log holding what the re-derivation wrote
C32_Witness ==
    /\ pc = "verify"
    /\ LockedDown
    /\ DOMAIN memblobstore.cache # {}
    /\ DOMAIN membonsaihgmapping.cache # {}
    /\ \E i \in ChunkPositions(offset) : task[i].pc = "done"


(***************************************************************************)
(* C33: the write log the concurrent writers of a chunk share is           *)
(* append-only: a key once written is never removed and its value never    *)
(* changes; and with equal keys carrying equal bytes the final write log   *)
(* is the same for every interleaving of the puts: whatever put is made    *)
(* next, what is logged together with what is still to be put stays the    *)
(* same, so the log every run ends with is the one the puts determine.     *)
(***************************************************************************)
\* the puts still to be made, by any writer
PendingPuts ==
    UNION {{pending_puts[w][n] : n \in DOMAIN pending_puts[w]} : w \in Writers}

\* the log once every pending put has been made, whatever the order
FinalLog ==
    PutAll(memblobstore.cache,
           [k \in {p[1] : p \in PendingPuts} |->
               (CHOOSE p \in PendingPuts : p[1] = k)[2]])

AllPut == \A w \in Writers : pending_puts[w] = <<>>

C33_Step ==
    /\ \A k \in DOMAIN memblobstore.cache :
          /\ k \in DOMAIN memblobstore'.cache
          /\ memblobstore'.cache[k] = memblobstore.cache[k]
    /\ FinalLog' = FinalLog
    /\ AllPut' => memblobstore'.cache = FinalLog

C33_WriteLogAppendOnly == [][C33_Step]_vars

\* every put has been made, four puts over three keys, one key put twice,
\* and the log holds the three keys
C33_Witness ==
    /\ AllPut
    /\ MaxPuts * Cardinality(Writers) > Cardinality(PutKeySet)
    /\ DOMAIN memblobstore.cache = PutKeySet


(***************************************************************************)
(* C34: the guard on the overlay store's write log that the driver takes   *)
(* to log the log's size is held only while the length is read: the step   *)
(* after the one that takes it releases it, with no collaborator call, no  *)
(* write and no task step in between; it is released before the overlays   *)
(* are locked down and before any per-commit task of the chunk starts, so  *)
(* no task ever runs, and none is left waiting, while the guard is held.   *)
(***************************************************************************)
GuardHeld == memblobstore # NoOverlay /\ memblobstore.cache_locked

C34_State ==
    /\ GuardHeld =>
          /\ pc = "cache_len"
          /\ ChunkUntouched
          /\ result = NoResult
          /\ WriteAndFallbackEnabled
    /\ pc \in {"lockdown", "verify"} => ~GuardHeld

C34_Step ==
    /\ GuardHeld =>
          /\ ~GuardHeld'
          /\ pc' = "lockdown"
          /\ memblobstore' = [memblobstore EXCEPT !.cache_locked = FALSE]
          /\ UNCHANGED <<inner_blobstore, inner_bonsai_hg_mapping,
                         membonsaihgmapping, task, result, offset>>
    /\ (~GuardHeld /\ GuardHeld') =>
          /\ pc = "cache_len"
          /\ regenerate_calls = chunks_passed + 1
          /\ memblobstore' = [memblobstore EXCEPT !.cache_locked = TRUE]
          /\ UNCHANGED <<inner_blobstore, inner_bonsai_hg_mapping,
                         membonsaihgmapping, task, result, offset, pc>>
    /\ (pc = "cache_len" /\ pc' = "lockdown") => GuardHeld

C34_GuardHeldOnlyForTheLengthRead == []C34_State /\ [][C34_Step]_vars

\* the driver holds the guard on the log of the second chunk, blobs in it
C34_Witness ==
    /\ GuardHeld
    /\ chunks_passed = 1
    /\ DOMAIN memblobstore.cache # {}


(***************************************************************************)
(* C35: whether a chunk passes or fails does not depend on the order in    *)
(* which its per-commit tasks are scheduled.  What the tasks read is fixed *)
(* when the verification starts (no step of it changes a store or an       *)
(* overlay), and it decides the verdict: either every task of the chunk    *)
(* finds its commit derived, the two values equal and the blobs present,   *)
(* and then no schedule ends the chunk with an error of validate's own;    *)
(* or some task is bound to fail, and then no schedule passes the chunk.   *)
(* An error of a collaborator call is an input, not a schedule.            *)
(***************************************************************************)
\* what the stores hold for the task of position i: "passes" when the
\* commit is derived in the overlay, the two values are equal and every
\* outcome of validate_generated_data is Ok; "fails" when one of the three
\* is bound to go wrong
TaskVerdict(i) ==
    IF ~IsDerived(ReadOnlyRepo, derived_data_type, csids[i]) THEN "fails"
    ELSE IF FetchDerived(OrigRepo, derived_data_type, csids[i])
               # FetchDerived(ReadOnlyRepo, derived_data_type, csids[i])
    THEN "fails"
    ELSE LET os == ValidateGeneratedData(OrigRepo, derived_data_type, csids[i],
                                         ReadOnlyRepo)
         IN  IF \A o \in os : o.result = Ok THEN "passes"
             ELSE IF \A o \in os : o.result # Ok THEN "fails"
             ELSE "depends"

OwnError(r) == r # NoResult /\ r # Ok /\ r.type # "upstream"

C35_Step ==
    /\ pc = "verify" =>
          /\ UNCHANGED <<inner_blobstore, inner_bonsai_hg_mapping>>
          /\ memblobstore' # NoOverlay =>
                UNCHANGED <<memblobstore, membonsaihgmapping, offset>>
    /\ (pc = "verify" /\ chunks_passed' # chunks_passed) =>
          \A i \in ChunkPositions(offset) : TaskVerdict(i) = "passes"
    /\ (pc = "verify" /\ OwnError(result')) =>
          \E i \in ChunkPositions(offset) :
             /\ task[i].pc \notin {"idle", "done"}
             /\ TaskVerdict(i) = "fails"

C35_VerdictIndependentOfSchedule == [][C35_Step]_vars

\* a chunk of two commits whose tasks ran in the other order than listed:
\* the second is done, the first not yet
C35_Witness ==
    /\ pc = "verify"
    /\ \E i, j \in ChunkPositions(offset) :
          /\ i < j
          /\ task[j].pc = "done"
          /\ task[i].pc \in {"is_derived", "derive", "validate"}
          /\ TaskVerdict(i) = "fails"


(***************************************************************************)
(* C36: with a finite commit list, finite manifests and collaborator calls *)
(* that each return, the run terminates: every chunk that was started is   *)
(* closed, passed on to the next turn of the loop or ended by the error    *)
(* that ends the run, and validate returns, Ok or a fatal error.           *)
(***************************************************************************)
Returned == pc = "done" /\ result # NoResult

\* no chunk is open: every chunk that was started has passed and its
\* overlay pair is dropped, or the error that ended the run has closed the
\* one in which it was raised
ChunksClosed ==
    \/ result # Ok
    \/ /\ memblobstore = NoOverlay
       /\ chunks_passed = overlays_built
       /\ chunks_passed = NumChunks

C36_RunTerminates == <>(Returned /\ ChunksClosed)

\* validate has returned Ok after two chunks, both closed
C36_Witness ==
    /\ Returned
    /\ result = Ok
    /\ chunks_passed = 2
    /\ overlays_built = 2
    /\ memblobstore = NoOverlay


(***************************************************************************)
(* C37: for every positive chunk size s, the default 10,000 included, the  *)
(* chunks partition the commit list: the chunks taken one after another    *)
(* give the list as it came, every chunk is non-empty, every chunk but the *)
(* last has exactly s commits and the last at most s; a commit's task is   *)
(* started in the one chunk the commit falls in, and never again, so a     *)
(* run that returns Ok has validated every listed commit in exactly one    *)
(* chunk.                                                                  *)
(***************************************************************************)
\* the commits of the chunk the loop is at
CurrentChunk ==
    SubSeq(csids, offset + 1, offset + Cardinality(ChunkPositions(offset)))

\* the chunk a position of the list falls in, chunks counted from 1
ChunkOf(i) == ((i - 1) \div validate_chunk_size) + 1

C37_State ==
    /\ validate_chunk_size >= 1
    /\ result = Ok =>
          /\ offset = Len(csids)
          /\ chunks_passed = NumChunks
          /\ overlays_built = NumChunks
          /\ \A i \in 1..Len(csids) : task[i].pc = "done"
    /\ \A i \in 1..Len(csids) :
          /\ task[i].pc # "idle" => ChunkOf(i) <= overlays_built
          /\ task[i].pc \notin {"idle", "done"} => ChunkOf(i) = overlays_built

C37_Step ==
    /\ overlays_built' # overlays_built =>
          /\ overlays_built' = overlays_built + 1
          /\ offset = overlays_built * validate_chunk_size
          /\ offset' = offset
          /\ Len(CurrentChunk) >= 1
          /\ Len(CurrentChunk) <= validate_chunk_size
          /\ overlays_built' < NumChunks =>
                Len(CurrentChunk) = validate_chunk_size
          /\ overlays_built' = NumChunks =>
                offset + Len(CurrentChunk) = Len(csids)
    /\ chunks_passed' # chunks_passed =>
          /\ chunks_passed' = overlays_built
          /\ SubSeq(csids, 1, offset') = SubSeq(csids, 1, offset) \o CurrentChunk
          /\ \A i \in 1..Len(csids) :
                task[i].pc = "done" <=> i <= offset'
    /\ offset' # offset => chunks_passed' # chunks_passed
    /\ \A i \in 1..Len(csids) :
          /\ (task[i].pc = "idle" /\ task'[i].pc # "idle") =>
                /\ i \in ChunkPositions(offset)
                /\ ChunkOf(i) = overlays_built
                /\ pc = "verify"
          /\ task[i].pc # "idle" => task'[i].pc # "idle"

C37_ChunksPartitionTheList == []C37_State /\ [][C37_Step]_vars

\* a run over three commits in chunks of two has returned Ok: a full chunk
\* and a last chunk of one
C37_Witness ==
    /\ result = Ok
    /\ Len(csids) = 3
    /\ validate_chunk_size = 2
    /\ chunks_passed = 2

=============================================================================
